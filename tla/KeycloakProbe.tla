---------------------------- MODULE KeycloakProbe ----------------------------
(***************************************************************************)
(* The flows of keycloak-session-revoke and keycloak-audience-claim: a     *)
(* login followed by a fixed list of requests and a printed report.  main  *)
(* of the first runs discovery; the others are there to be called in its   *)
(* place.  All runs use one browser, hence one Keycloak session: ending it *)
(* ends the tokens of every run but the offline ones.                      *)
(*                                                                         *)
(* Keycloak and Horizon are external: a dead refresh token is refused with *)
(* 400 invalid_grant, a missing one with another 400, a missing bearer     *)
(* token with a status other than 200, and any request may get some other  *)
(* status, or no answer whether it was executed or not. Nobody but a run   *)
(* ends a session, and no token runs out in the minutes a run takes.       *)
(***************************************************************************)
EXTENDS LoopbackLogin

CONSTANT FlowChoices   \* the flows the runs may take, one function per choice

VARIABLES
  flow,     \* the flow a run takes after its login (fixed)
  token,    \* the run's refresh token at Keycloak
  ended,    \* the run's own logout or revoke request is behind it
  seen,     \* what the flow has learnt so far: see Sights
  report    \* what the run printed as its verdict

vars == <<login, flow, token, ended, seen, report>>

Flows ==
  {"discovery", "groups", "stability", "logout", "revoke", "offline", "audience"}

ASSUME FlowsAssumption == FlowChoices \subseteq [Logins -> Flows]

Ending == {"logout", "revoke", "offline"}

\* good: it can be refreshed. own: it died by its run's own request. other: it
\* died with the session another run has ended.
Tokens == {"none", "good", "own", "other"}

\* absent, present: whether the access token has ucp groups. The others are
\* Keycloak's reply to the refresh that verifies: tokens, 400 invalid_grant, or
\* anything else.
Sights == {"none", "absent", "present", "refreshed", "invalid_grant", "other"}

\* none: the program ended without a verdict.
Reports == {"none", "claims", "absent", "present", "stable", "changed", "pass", "fail"}

Init ==
  /\ InitLogin
  /\ flow \in FlowChoices
  /\ token = [l \in Logins |-> "none"]
  /\ ended = [l \in Logins |-> FALSE]
  /\ seen = [l \in Logins |-> "none"]
  /\ report = [l \in Logins |-> "none"]

-----------------------------------------------------------------------------
InLogin(l) == LoginRuns(l) /\ UNCHANGED <<flow, token, ended, seen, report>>

\* exchangeCode; Keycloak's tokens are good from now on.
Redeem(l) ==
  /\ Exchange(l)
  /\ token' = [token EXCEPT ![l] = IF outcome'[l] = "tokens" THEN "good" ELSE @]
  /\ UNCHANGED <<flow, ended, seen, report>>

\* Every flow gives up on an error from login and goes on with anything else.
Begin(l) ==
  /\ pc[l] = "returned"
  /\ Goto(l, IF outcome[l] \in {"tokens", "hollow"} THEN "flow" ELSE "exited")
  /\ UNCHANGED <<port, handling, codeCh, errCh, code, outcome, got,
                 flow, token, ended, seen, report>>

At(l, flows) == pc[l] = "flow" /\ flow[l] \in flows

\* The run prints its verdict r, or "none", and ends.
End(l, r) ==
  /\ report' = [report EXCEPT ![l] = r]
  /\ Goto(l, "exited")
  /\ UNCHANGED <<port, handling, codeCh, errCh, code, outcome, got, flow>>

\* flowGroupsClaim and the audience probe decode the access token, and stop at
\* one that is not there.
Inspect(l) ==
  /\ At(l, {"groups", "audience"})
  /\ End(l, IF outcome[l] = "tokens" THEN "claims" ELSE "none")
  /\ UNCHANGED <<token, ended, seen>>

See(l, sight) ==
  /\ seen' = [seen EXCEPT ![l] = sight]
  /\ UNCHANGED <<login, flow, ended, report>>

\* Step 2 of flowUCPSubscriptionDiscovery says whether the token has ucp groups,
\* before anybody is asked. A token that does not decode has none: "absent from
\* JWT groups" is printed of a login without tokens, too.
ReadGroups(l) ==
  /\ At(l, {"discovery"}) /\ seen[l] = "none"
  /\ \E sight \in IF outcome[l] = "tokens" THEN {"absent", "present"} ELSE {"absent"} :
       See(l, sight)
  /\ UNCHANGED token

\* As if the verdict were printed whatever Core Data answers.
DiscoverHasty(l) ==
  /\ At(l, {"discovery"}) /\ seen[l] # "none"
  /\ End(l, seen[l]) \/ End(l, "none")
  /\ UNCHANGED <<token, ended, seen>>

\* Step 4 asks Core Data: the verdict needs its 200, else the flow ends.
Discover(l) ==
  /\ At(l, {"discovery"}) /\ seen[l] # "none"
  /\ \/ outcome[l] = "tokens" /\ End(l, seen[l])
     \/ End(l, "none")
  /\ UNCHANGED <<token, ended, seen>>

\* flowAuthTimeSidStability: one refresh through postForm. The claims of an
\* answer without tokens are zero, which counts as a change.
Refresh(l) ==
  /\ At(l, {"stability"})
  /\ \/ token[l] = "good" /\ End(l, "stable")
     \/ End(l, "changed")
     \/ End(l, "none")
  /\ UNCHANGED <<token, ended, seen>>

\* The sets of other runs whose tokens die with l's: a logout ends the session of
\* them all, a revocation may end it, an offline token has one of its own.
DieWith(l) ==
  LET others == {k \in Logins \ {l} : flow[k] # "offline"} IN
  [logout |-> {others}, revoke |-> SUBSET others, offline |-> {{}}][flow[l]]

\* What Keycloak does when it executes l's logout or revoke request.
Kill(l, others) ==
  [k \in Logins |->
     IF token[k] # "good" THEN token[k]
     ELSE IF k = l THEN "own"
     ELSE IF k \in others THEN "other"
     ELSE "good"]

\* postRevoke: executed or not, and answered with any status, which the flows
\* print and do not look at. Without an answer the run ends.
EndSession(l) ==
  /\ At(l, Ending) /\ ~ended[l]
  /\ \/ token' = token
     \/ token[l] = "good" /\ \E others \in DieWith(l) : token' = Kill(l, others)
  /\ ended' = [ended EXCEPT ![l] = TRUE]
  /\ UNCHANGED seen
  /\ UNCHANGED <<login, flow, report>> \/ End(l, "none")

\* What Keycloak may answer to a refresh with l's token.
Replies(l) ==
  {"other"} \cup
    CASE token[l] = "good" -> {"refreshed"}
      [] token[l] \in {"own", "other"} -> {"invalid_grant"}
      [] token[l] = "none" -> {}

\* tryRefresh: any answer is handed on; without one the run ends.
TryRefresh(l) ==
  /\ At(l, Ending) /\ ended[l] /\ seen[l] = "none"
  /\ \/ \E reply \in Replies(l) : See(l, reply)
     \/ End(l, "none") /\ UNCHANGED <<ended, seen>>
  /\ UNCHANGED token

\* As if any 400 were taken for a revoked token.
VerifyAny400(l) ==
  /\ At(l, Ending) /\ seen[l] # "none"
  /\ \/ seen[l] # "refreshed" /\ End(l, "pass")
     \/ seen[l] # "invalid_grant" /\ End(l, "fail")
  /\ UNCHANGED <<token, ended, seen>>

\* printVerifyResult: 400 with invalid_grant is a PASS, all else a FAIL, the other
\* 400 that an empty token gets included.
Verify(l) ==
  /\ At(l, Ending) /\ seen[l] # "none"
  /\ End(l, IF seen[l] = "invalid_grant" THEN "pass" ELSE "fail")
  /\ UNCHANGED <<token, ended, seen>>

Runs(l) ==
  \/ InLogin(l) \/ Redeem(l) \/ Begin(l)
  \/ Inspect(l) \/ ReadGroups(l) \/ Discover(l) \/ Refresh(l)
  \/ EndSession(l) \/ TryRefresh(l) \/ Verify(l)

Browser == \E v \in Values : Callback(v) /\ UNCHANGED <<flow, token, ended, seen, report>>

Killed(l) == Interrupt(l) /\ UNCHANGED <<flow, token, ended, seen, report>>

\* The programs end.
Next == (\E l \in Logins : Runs(l) \/ Killed(l)) \/ Browser

\* A program runs on, its handlers too, and each of its calls returns. Nobody
\* has to call back.
Spec == Init /\ [][Next]_vars /\ \A l \in Logins : WF_vars(Runs(l))

-----------------------------------------------------------------------------
TypeOK ==
  /\ TypeOKLogin
  /\ flow \in [Logins -> Flows]
  /\ token \in [Logins -> Tokens]
  /\ ended \in [Logins -> BOOLEAN]
  /\ seen \in [Logins -> Sights]
  /\ report \in [Logins -> Reports]

\* "RESULT: PASS - refresh token is revoked" (printVerifyResult) has one of two
\* causes. The run's own request was executed, whatever it was answered; or, the
\* flows looking at no status, it was not, and the token died with the session that
\* another run's logout or revocation had ended. No offline token dies of the latter.
PassHasCause ==
  \A l \in Logins : report[l] = "pass" =>
    \/ token[l] = "own" /\ ended[l]
    \/ /\ token[l] = "other" /\ flow[l] # "offline"
       /\ \E k \in Logins \ {l} :
            flow[k] \in {"logout", "revoke"} /\ ended[k] /\ token[k] = "own"

\* A login may return without tokens and without an error (postForm), and after a
\* code of another page it gets none. No flow then ends in success: no claims, no
\* verdict on subscriptions, no STABLE and no PASS. FAIL, CHANGED and what step 2 of
\* the discovery says are printed all the same.
SuccessNeedsTokens ==
  \A l \in Logins :
    report[l] \in {"claims", "absent", "present", "stable", "pass"} =>
      outcome[l] = "tokens"

\* A run that listens ends, or a callback too many holds its shutdown.
ProbeEnds ==
  \A l \in Logins : pc[l] = "waiting" ~> (pc[l] = "exited" \/ []Held(l))
=============================================================================
