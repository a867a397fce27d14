------------------------------ MODULE YbAssets -------------------------------
(***************************************************************************)
(* The tasks deployEmptyStrats and registerYbAssets of one chain: the      *)
(* first deploys strategies for tokens it finds in the deployment files,   *)
(* the second registers the strategies it finds with the tokens of those   *)
(* names in YieldBox, in one batch.  Tokens are deployed again under their *)
(* names by other projects, specific strategies come from another one, and *)
(* a task may be stopped anywhere.                                         *)
(*                                                                         *)
(* A token is its name and how often it was deployed; a strategy contract  *)
(* is its place in holds.                                                  *)
(***************************************************************************)
EXTENDS Integers, FiniteSets, SequencesExt

CONSTANTS
    Tofts,          \* names of tOFTs
    Mocks,          \* names of mock tokens
    Specifics,      \* names of tokens that may get a specific strategy
    Terms,          \* what the operator filters by
    Matches,        \* whose empty strategies have a term in their names
    SpecificTerms,  \* the terms in the names of all specific strategies
    Redeployable,   \* names of tokens that are deployed again
    Testnet,        \* whether the chain is one
    MaxRedeployed, MaxRuns, MaxCrashes   \* bounds

USDO == "USDO"
TapOFT == "TapOFT"
Names == Tofts \cup Mocks \cup {USDO, TapOFT}
\* What a token contract calls itself is no name of a deployment.
ErcName == "what it calls itself"
StratNames == Names \cup {ErcName}

AssetsAssumption ==
    /\ IsFiniteSet(Tofts) /\ Testnet \in BOOLEAN
    /\ Specifics \subseteq Names /\ Redeployable \subseteq Names
    /\ Matches \in [Terms -> SUBSET StratNames]
    /\ SpecificTerms \subseteq Terms /\ "" \in SpecificTerms /\ Matches[""] = StratNames
    /\ MaxRedeployed \in Nat /\ MaxRuns \in Nat /\ MaxCrashes \in Nat

VARIABLES
    tokens,         \* the deployment files: how often each token was deployed
    released,       \* the USDO of the global deployments, the local one being tokens'
    specific,       \* the global deployments' specific strategies: the token each holds
    strats,         \* the local deployments' empty strategies: the contract of each name
    holds,          \* strategy contracts: the token each holds
    assets,         \* YieldBox: the pairs of token and strategy registered
    task,           \* what is under way
    ended,          \* how the last task ended
    runs, crashes

vars == <<tokens, released, specific, strats, holds, assets, task, ended, runs, crashes>>
chain == <<strats, holds, assets>>
files == <<tokens, released, specific>>

Idle == [at |-> "idle"]

Fresh == [what |-> "nothing"]

Init ==
    /\ tokens = [n \in Names |-> 0] /\ released = 0
    /\ specific = << >>
    /\ strats = << >> /\ holds = <<>> /\ assets = {}
    /\ task = Idle /\ ended = Fresh /\ runs = 0 /\ crashes = 0

Deployed(n) == <<n, tokens[n]>>
Update(f, g) == [x \in DOMAIN f \cup DOMAIN g |-> IF x \in DOMAIN g THEN g[x] ELSE f[x]]
Finish(end) == task' = Idle /\ ended' = end

----------------------------------------------------------------------------
(***************************************************************************)
(* deployEmptyStrats                                                       *)
(***************************************************************************)
StratType == [TOFT |-> 0, USDO |-> 1, TAP |-> 2, Token |-> 3, TokenAddress |-> 4]

\* The token a name stands for: the released USDO comes before the local one.
Lookup(n) == IF n = USDO THEN <<USDO, released>> ELSE Deployed(n)
\* The tokens of a type, n being what the operator enters, by the name their
\* strategy is made under.
Found(type, n) ==
    CASE type = StratType.TOFT -> [m \in Tofts |-> Lookup(m)]
      [] type = StratType.USDO -> [m \in {USDO} |-> Lookup(m)]
      [] type = StratType.TAP -> [m \in {TapOFT} |-> Lookup(m)]
      [] type = StratType.Token -> [m \in {n} |-> Lookup(m)]
      [] type = StratType.TokenAddress -> [m \in {ErcName} |-> Deployed(n)]
      [] OTHER -> [m \in {n} \cap {USDO} |-> Lookup(m)]

\* Whether a tOFT has no strategy, or one for an earlier deployment.
Stale(n) == IF n \in DOMAIN strats THEN holds[strats[n]] # Deployed(n) ELSE TRUE

\* Runs nothing calls for are bounded.
deployEmptyStrats(type, n) ==
    /\ task = Idle
    /\ IF type = StratType.TOFT /\ \E m \in Tofts : Stale(m)
       THEN UNCHANGED runs
       ELSE runs < MaxRuns /\ runs' = runs + 1
    /\ task' = [at |-> "execute", type |-> type, found |-> Found(type, n)]
    /\ ended' = Fresh
    /\ UNCHANGED <<files, chain, crashes>>

\* One contract for each, after those there are.
execute ==
    /\ task.at = "execute"
    /\ LET order == SetToSeq(DOMAIN task.found) IN
       /\ holds' = holds \o [i \in DOMAIN order |-> task.found[order[i]]]
       /\ task' = [at |-> "save", type |-> task.type,
                   made |-> [m \in DOMAIN task.found |->
                       Len(holds) + CHOOSE i \in DOMAIN order : order[i] = m]]
    /\ UNCHANGED <<files, strats, assets, ended, runs, crashes>>

save ==
    /\ task.at = "save"
    /\ strats' = Update(strats, task.made)
    /\ Finish([what |-> "deployEmptyStrats", ok |-> TRUE, type |-> task.type,
               names |-> DOMAIN task.made])
    /\ UNCHANGED <<files, holds, assets, runs, crashes>>

----------------------------------------------------------------------------
(***************************************************************************)
(* registerYbAssets                                                        *)
(***************************************************************************)
\* Strategies by the token they are for: an empty one of the local deployments,
\* a specific one of the global ones, which is a contract not in holds.
Empty(n) == [for |-> n, empty |-> TRUE, contract |-> strats[n]]
Specific(n) == [for |-> n, empty |-> FALSE, contract |-> specific[n]]
Held(strat) == IF strat.empty THEN holds[strat.contract] ELSE strat.contract

\* The specific strategies the operator names take the place of empty ones.
Chosen(named) ==
    {Empty(n) : n \in DOMAIN strats \ (named \cap DOMAIN specific)}
        \cup {Specific(n) : n \in DOMAIN specific}
\* WRONG: the term is asked for and not used.
Unfiltered(chosen, term) == chosen
Filtered(chosen, term) ==
    {s \in chosen : IF s.empty THEN s.for \in Matches[term] ELSE term \in SpecificTerms}

\* Whether a token of that name is among the deployments looked through.
Known(n) == n \in Tofts \cup {USDO, TapOFT} \cup (IF Testnet THEN Mocks ELSE {})
buildYieldBoxAssets(chosen) == {[strat |-> s, token |-> Deployed(s.for)] : s \in chosen}

registerYbAssets(named, term) ==
    /\ task = Idle
    /\ LET chosen == Filtered(Chosen(named), term) IN
       IF \A s \in chosen : Known(s.for)
       THEN /\ task' = [at |-> "multicall", named |-> named,
                        calls |-> buildYieldBoxAssets(chosen)]
            /\ ended' = Fresh
       ELSE Finish([what |-> "registerYbAssets", ok |-> FALSE])
    /\ UNCHANGED <<files, chain, runs, crashes>>

\* YieldBox registers a pair it has not, and no strategy with another token.
Registers(call) == Held(call.strat) = call.token
\* WRONG: calls that fail are left out.
multicallAllowingFailure ==
    /\ task.at = "multicall"
    /\ assets' = assets \cup {c \in task.calls : Registers(c)}
    /\ Finish([what |-> "registerYbAssets", ok |-> TRUE, named |-> task.named,
               calls |-> task.calls])
    /\ UNCHANGED <<files, strats, holds, runs, crashes>>
multicall ==
    /\ task.at = "multicall"
    /\ IF \A c \in task.calls : Registers(c)
       THEN /\ assets' = assets \cup task.calls
            /\ Finish([what |-> "registerYbAssets", ok |-> TRUE, named |-> task.named,
                       calls |-> task.calls])
       ELSE UNCHANGED assets /\ Finish([what |-> "registerYbAssets", ok |-> FALSE])
    /\ UNCHANGED <<files, strats, holds, runs, crashes>>

----------------------------------------------------------------------------
(***************************************************************************)
(* Other projects, and the operator.                                       *)
(***************************************************************************)
Redeploy(n) ==
    /\ tokens[n] < MaxRedeployed
    /\ tokens' = [tokens EXCEPT ![n] = @ + 1]
    /\ UNCHANGED <<released, specific, chain, task, ended, runs, crashes>>
Release ==
    /\ released # tokens[USDO] /\ released' = tokens[USDO]
    /\ UNCHANGED <<tokens, specific, chain, task, ended, runs, crashes>>
DeploySpecific(n) ==
    /\ n \in DOMAIN specific => specific[n] # Deployed(n)
    /\ specific' = Update(specific, [m \in {n} |-> Deployed(n)])
    /\ UNCHANGED <<tokens, released, chain, task, ended, runs, crashes>>

\* The process is killed, or the operator does not confirm what he is shown.
Crash ==
    /\ task # Idle /\ crashes < MaxCrashes
    /\ task' = Idle /\ crashes' = crashes + 1
    /\ UNCHANGED <<files, chain, ended, runs>>

Script == execute \/ save \/ multicall
Operator ==
    \/ \E type \in 0 .. 5, n \in Names : deployEmptyStrats(type, n)
    \/ \E named \in SUBSET Specifics, t \in Terms : registerYbAssets(named, t)
Others ==
    \/ \E n \in Redeployable : Redeploy(n)
    \/ Release
    \/ \E n \in Specifics : DeploySpecific(n)

Next == Script \/ Operator \/ Others \/ Crash

----------------------------------------------------------------------------
(***************************************************************************)
(* Properties.                                                             *)
(***************************************************************************)
\* The type invariant; what the file names was deployed, a crash in between
\* included (02-deployEmptyStrats.ts:143-144).
TypeOK ==
    /\ tokens \in [Names -> 0 .. MaxRedeployed] /\ released \in 0 .. MaxRedeployed
    /\ DOMAIN specific \subseteq Specifics /\ DOMAIN strats \subseteq StratNames
    /\ \A n \in DOMAIN strats : strats[n] \in 1 .. Len(holds)
    /\ runs \in 0 .. MaxRuns /\ crashes \in 0 .. MaxCrashes

\* A run of registerYbAssets that ends without an error has registered each
\* strategy it showed the operator, with the token it holds, whatever was
\* deployed again between the prompt and the batch.
DoneMeansRegistered ==
    ended.what = "registerYbAssets" /\ ended.ok =>
        \A c \in ended.calls : c \in assets /\ Held(c.strat) = c.token

\* "remove empty strategies for same token" (registerYbAssets.ts:40): a token whose
\* specific strategy the operator named gets no second asset by the same run.
SpecificReplacesEmpty ==
    ended.what = "registerYbAssets" /\ ended.ok =>
        \A c, d \in ended.calls :
            c.strat.for = d.strat.for /\ c.strat.for \in ended.named => c = d

\* A tOFT gets an asset with the strategy the file has for it, also when it is
\* deployed again, strategies of other tokens have become unusable and tasks
\* are stopped: filtered runs get past them.
ToftsRegistered ==
    \A n \in Tofts : []<>(/\ ~Stale(n)
                          /\ [strat |-> Empty(n), token |-> Deployed(n)] \in assets)
=============================================================================
