---------------------------- MODULE LoopbackLogin ----------------------------
(***************************************************************************)
(* login of keycloak-session-revoke and of keycloak-audience-claim, two    *)
(* programs a user starts by hand.  A login listens on the fixed port      *)
(* 18080, opens the browser, and waits for the callback that carries the   *)
(* code, for one that carries an error, or for two minutes.  It redeems    *)
(* the code, and before it returns it shuts its server down, which waits   *)
(* for every handler under way.                                            *)
(*                                                                         *)
(* The handler of /callback hands its value to login over a channel of     *)
(* capacity one.  Nothing bounds the number of callbacks: the user reloads *)
(* the page, goes back and logs in again, or comes back to a page another  *)
(* run has opened.  The browser and Keycloak are external.                 *)
(***************************************************************************)
EXTENDS Naturals, Sequences, Functions

CONSTANTS
  Logins,        \* runs of the two programs, each with one login
  MaxCallbacks   \* callbacks that reach any of them (bound)

ASSUME LoginsAssumption == "free" \notin Logins /\ MaxCallbacks \in Nat

VARIABLES
  pc,        \* where a run is
  port,      \* the login whose server listens on callbackPort, or "free"
  handling,  \* handling[l][v]: handlers of l's server that have v to send
  codeCh,    \* the codes in l's channel
  errCh,     \* the errors in l's channel
  code,      \* the code select has taken, "none" before
  outcome,   \* what login returns
  got        \* callbacks that have reached l's server

login == <<pc, port, handling, codeCh, errCh, code, outcome, got>>

\* A code belongs to the login page, and so to the PKCE verifier, it was issued
\* for. own: the code issued for the login that receives it. other: the code of
\* another page, or the empty one of a callback that carries none.
Codes == {"own", "other"}
Values == Codes \cup {"error"}

\* tokens: an answer with tokens. hollow: a JSON answer with neither error nor
\* tokens. refused: any other answer, or none. port: the port was taken.
Outcomes == {"none", "tokens", "hollow", "refused", "denied", "timeout", "port"}

Listening == {"waiting", "exchange", "closing"}
Places == Listening \cup {"start", "draining", "returned", "flow", "exited"}

TypeOKLogin ==
  /\ pc \in [Logins -> Places]
  /\ port \in Logins \cup {"free"}
  /\ handling \in [Logins -> [Values -> Nat]]
  /\ codeCh \in [Logins -> {<<>>} \cup {<<c>> : c \in Codes}]
  /\ errCh \in [Logins -> {<<>>, <<"error">>}]
  /\ code \in [Logins -> Codes \cup {"none"}]
  /\ outcome \in [Logins -> Outcomes]
  /\ got \in [Logins -> Nat]

InitLogin ==
  /\ pc = [l \in Logins |-> "start"]
  /\ port = "free"
  /\ handling = [l \in Logins |-> [v \in Values |-> 0]]
  /\ codeCh = [l \in Logins |-> <<>>]
  /\ errCh = [l \in Logins |-> <<>>]
  /\ code = [l \in Logins |-> "none"]
  /\ outcome = [l \in Logins |-> "none"]
  /\ got = [l \in Logins |-> 0]

Goto(l, place) == pc' = [pc EXCEPT ![l] = place]
Result(l, o) == outcome' = [outcome EXCEPT ![l] = o]

-----------------------------------------------------------------------------
\* net.Listen. When the port is taken login returns at once.
Listen(l) ==
  /\ pc[l] = "start"
  /\ IF port = "free"
       THEN port' = l /\ Goto(l, "waiting") /\ UNCHANGED outcome
       ELSE Goto(l, "returned") /\ Result(l, "port") /\ UNCHANGED port
  /\ UNCHANGED <<handling, codeCh, errCh, code, got>>

MoreCallbacks == FoldFunction(+, 0, got) < MaxCallbacks

\* The browser requests /callback, whichever login listens now.
Callback(v) ==
  /\ port \in Logins
  /\ MoreCallbacks
  /\ handling' = [handling EXCEPT ![port][v] = @ + 1]
  /\ got' = [got EXCEPT ![port] = @ + 1]
  /\ UNCHANGED <<pc, port, codeCh, errCh, code, outcome>>

\* As if the channels were unbuffered: a handler sends while login receives.
RoomUnbuffered(l, channel) == pc[l] = "waiting" /\ channel = <<>>

\* As if the channels were made with capacity two.
RoomForTwo(l, channel) == Len(channel) < 2

\* Both channels are made with capacity one.
Room(l, channel) == Len(channel) < 1

\* A handler's send, which waits for room; then the handler is over.
Deliver(l, v) ==
  /\ handling[l][v] > 0
  /\ IF v = "error"
       THEN /\ Room(l, errCh[l])
            /\ errCh' = [errCh EXCEPT ![l] = Append(@, v)]
            /\ UNCHANGED codeCh
       ELSE /\ Room(l, codeCh[l])
            /\ codeCh' = [codeCh EXCEPT ![l] = Append(@, v)]
            /\ UNCHANGED errCh
  /\ handling' = [handling EXCEPT ![l][v] = @ - 1]
  /\ UNCHANGED <<pc, port, code, outcome, got>>

\* select takes any branch that is ready.
TakeCode(l) ==
  /\ pc[l] = "waiting" /\ codeCh[l] # <<>>
  /\ code' = [code EXCEPT ![l] = Head(codeCh[l])]
  /\ codeCh' = [codeCh EXCEPT ![l] = Tail(@)]
  /\ Goto(l, "exchange")
  /\ UNCHANGED <<port, handling, errCh, outcome, got>>

TakeError(l) ==
  /\ pc[l] = "waiting" /\ errCh[l] # <<>>
  /\ errCh' = [errCh EXCEPT ![l] = Tail(@)]
  /\ Goto(l, "closing") /\ Result(l, "denied")
  /\ UNCHANGED <<port, handling, codeCh, code, got>>

\* As if nothing ended the waiting but a callback.
NoTimeLimit(l) == FALSE /\ UNCHANGED login

TimeOut(l) ==
  /\ pc[l] = "waiting"
  /\ Goto(l, "closing") /\ Result(l, "timeout")
  /\ UNCHANGED <<port, handling, codeCh, errCh, code, got>>

\* The code is redeemed with this login's verifier. Keycloak gives tokens only
\* for a code issued for it; postForm takes any JSON without an error for them.
Exchange(l) ==
  /\ pc[l] = "exchange"
  /\ \/ code[l] = "own" /\ Result(l, "tokens")
     \/ \E o \in {"hollow", "refused"} : Result(l, o)
  /\ Goto(l, "closing")
  /\ UNCHANGED <<port, handling, codeCh, errCh, code, got>>

\* The deferred Shutdown stops listening at once ...
Shutdown(l) ==
  /\ pc[l] = "closing"
  /\ port' = "free"
  /\ Goto(l, "draining")
  /\ UNCHANGED <<handling, codeCh, errCh, code, outcome, got>>

\* Nothing of a login but its result is left when it is over.
Forget(l) ==
  /\ codeCh' = [codeCh EXCEPT ![l] = <<>>]
  /\ errCh' = [errCh EXCEPT ![l] = <<>>]
  /\ code' = [code EXCEPT ![l] = "none"]

\* ... and returns, with login, when no handler is under way.
Drained(l) ==
  /\ pc[l] = "draining"
  /\ \A v \in Values : handling[l][v] = 0
  /\ Goto(l, "returned")
  /\ Forget(l)
  /\ UNCHANGED <<port, handling, outcome, got>>

\* The user ends the program; its server goes with it.
Interrupt(l) ==
  /\ pc[l] \in Listening \cup {"draining"}
  /\ Goto(l, "exited")
  /\ port' = IF port = l THEN "free" ELSE port
  /\ handling' = [handling EXCEPT ![l] = [v \in Values |-> 0]]
  /\ Forget(l)
  /\ UNCHANGED <<outcome, got>>

\* The steps of login and its handlers but for Exchange.
LoginRuns(l) ==
  \/ Listen(l)
  \/ \E v \in Values : Deliver(l, v)
  \/ TakeCode(l) \/ TakeError(l) \/ TimeOut(l)
  \/ Shutdown(l) \/ Drained(l)

-----------------------------------------------------------------------------
\* A handler of l's server has a value to send and no room for it, and nobody
\* will take anything from its channel any more.
Held(l) ==
  /\ pc[l] = "draining"
  /\ \E v \in Values :
       handling[l][v] > 0 /\ ~Room(l, IF v = "error" THEN errCh[l] ELSE codeCh[l])

\* A callback that comes after login has made up its mind, on the time limit or
\* on another callback, does not hold the shutdown: the buffered channel takes
\* it. It needs one more callback to hold the program for ever. The callbacks are
\* counted in all: when one was in the channel already as the time limit decided,
\* one late callback is the second.
LateCallbackHarmless ==
  \A l \in Logins :
    Held(l) => got[l] >= (IF outcome[l] = "timeout" THEN 2 ELSE 3)
=============================================================================
