------------------------- MODULE KeycloakProbeProofs -------------------------
(***************************************************************************)
(* The safety of KeycloakProbe, and of the login it is built on, for any   *)
(* number of runs and of callbacks.                                        *)
(***************************************************************************)
EXTENDS KeycloakProbe, TLAPS

\* The callbacks a server has not handed to its login, and whether one was taken.
Pending(l) ==
  handling[l]["own"] + handling[l]["other"] + handling[l]["error"]
    + Len(codeCh[l]) + Len(errCh[l])
Taken(l) == IF code[l] # "none" \/ outcome[l] = "denied" THEN 1 ELSE 0

\* A login has made up its mind when it closes, on one callback or on none.
LoginSound(l) ==
  /\ pc[l] \in Listening <=> port = l
  /\ pc[l] = "start" => \A v \in Values : handling[l][v] = 0
  /\ pc[l] = "start" => codeCh[l] = <<>> /\ errCh[l] = <<>>
  /\ pc[l] \in {"start", "waiting"} => code[l] = "none" /\ outcome[l] = "none"
  /\ pc[l] = "exchange" => code[l] # "none" /\ outcome[l] = "none"
  /\ pc[l] \in {"closing", "draining"} =>
       code[l] # "none" \/ outcome[l] \in {"denied", "timeout"}
  /\ pc[l] \in Listening \cup {"start", "draining"} => got[l] >= Pending(l) + Taken(l)

\* A run has a token only from its login, and a verdict only at its end.
RunSound(l) ==
  /\ pc[l] \in {"start", "waiting", "exchange"} => token[l] = "none"
  /\ token[l] # "none" => outcome[l] = "tokens"
  /\ report[l] # "none" => pc[l] = "exited"
  /\ seen[l] = "invalid_grant" \/ report[l] = "pass" => token[l] \in {"own", "other"}
  /\ report[l] \in {"claims", "absent", "present", "stable", "pass"} => outcome[l] = "tokens"
  /\ seen[l] # "none" => pc[l] \in {"flow", "exited"}
  /\ flow[l] = "discovery" => seen[l] \in {"none", "absent", "present"}

IInv == TypeOK /\ \A l \in Logins : LoginSound(l) /\ RunSound(l)

-----------------------------------------------------------------------------
\* A run that has not started has neither callbacks nor tokens.
LEMMA InitIInv == Init => IInv
<1> SUFFICES ASSUME Init PROVE IInv
  OBVIOUS
<1>1. TypeOK
  BY FlowsAssumption DEF Init, InitLogin, TypeOK, TypeOKLogin, Places, Codes, Outcomes,
     Tokens, Sights, Reports
<1>2. ASSUME NEW l \in Logins PROVE LoginSound(l)
  <2>1. /\ pc[l] = "start" /\ port = "free" /\ code[l] = "none" /\ outcome[l] = "none"
        /\ codeCh[l] = <<>> /\ errCh[l] = <<>> /\ got[l] = 0
        /\ \A v \in Values : handling[l][v] = 0
    BY DEF Init, InitLogin
  <2>2. Pending(l) = 0 /\ Taken(l) = 0
    BY <2>1 DEF Pending, Taken, Values, Codes
  <2>3. QED
    BY <2>1, <2>2, LoginsAssumption DEF LoginSound, Listening
<1>3. ASSUME NEW l \in Logins PROVE RunSound(l)
  BY DEF Init, InitLogin, RunSound
<1>4. QED
  BY <1>1, <1>2, <1>3 DEF IInv

\* What a step leaves alone of a run keeps the run sound, whatever it does to the
\* others: to end a session may only turn a good token into a dead one.
LEMMA Elsewhere ==
  ASSUME IInv, NEW k \in Logins,
         pc'[k] = pc[k], port' = k <=> port = k, handling'[k] = handling[k],
         codeCh'[k] = codeCh[k], errCh'[k] = errCh[k], code'[k] = code[k],
         outcome'[k] = outcome[k], got'[k] = got[k], report'[k] = report[k],
         flow'[k] = flow[k], seen'[k] = seen[k],
         token'[k] = token[k] \/ (token[k] = "good" /\ token'[k] \in {"own", "other"})
  PROVE  LoginSound(k)' /\ RunSound(k)'
<1>1. LoginSound(k)'
  BY DEF IInv, LoginSound, Pending, Taken
<1>2. RunSound(k)'
  BY DEF IInv, RunSound
<1>3. QED
  BY <1>1, <1>2

\* A step of login leaves the flow's state alone.
FlowKept == UNCHANGED <<flow, token, ended, seen, report>>

\* A run of which only the login's place and result change.
LEMMA ListenKeeps ==
  ASSUME IInv, NEW l \in Logins, Listen(l), FlowKept
  PROVE  IInv'
<1>1. /\ pc[l] = "start" /\ UNCHANGED <<handling, codeCh, errCh, code, got>>
      /\ UNCHANGED <<flow, token, ended, seen, report>>
      /\ IF port = "free"
           THEN port' = l /\ pc' = [pc EXCEPT ![l] = "waiting"] /\ UNCHANGED outcome
           ELSE /\ pc' = [pc EXCEPT ![l] = "returned"]
                /\ outcome' = [outcome EXCEPT ![l] = "port"] /\ UNCHANGED port
  BY DEF Listen, Goto, Result, FlowKept
<1>2. TypeOK'
  BY <1>1 DEF IInv, TypeOK, TypeOKLogin, Places, Listening, Outcomes
<1>3. ASSUME NEW k \in Logins PROVE LoginSound(k)' /\ RunSound(k)'
  <2>1. CASE k # l
    <3>1. /\ pc'[k] = pc[k] /\ (port' = k <=> port = k) /\ outcome'[k] = outcome[k]
      BY <1>1, <2>1, LoginsAssumption DEF IInv, TypeOK, TypeOKLogin
    <3>2. QED
      BY <1>1, <3>1, Elsewhere
  <2>2. CASE k = l
    <3>1. port # l
      BY <1>1 DEF IInv, LoginSound, Listening
    <3>2. CASE port = "free"
      <4>1. pc'[l] = "waiting" /\ port' = l /\ outcome' = outcome
        BY <1>1, <3>2 DEF IInv, TypeOK, TypeOKLogin
      <4>2. LoginSound(l)'
        BY <1>1, <4>1 DEF IInv, LoginSound, Pending, Taken, Listening
      <4>3. RunSound(l)'
        BY <1>1, <4>1 DEF IInv, RunSound
      <4>4. QED
        BY <2>2, <4>2, <4>3
    <3>3. CASE port # "free"
      <4>1. pc'[l] = "returned" /\ port' # l /\ outcome'[l] = "port"
        BY <1>1, <3>1, <3>3 DEF IInv, TypeOK, TypeOKLogin
      <4>2. LoginSound(l)'
        BY <4>1 DEF LoginSound, Listening
      <4>3. RunSound(l)'
        BY <1>1, <4>1 DEF IInv, RunSound
      <4>4. QED
        BY <2>2, <4>2, <4>3
    <3>4. QED
      BY <3>2, <3>3
  <2>3. QED
    BY <2>1, <2>2
<1>4. QED
  BY <1>2, <1>3 DEF IInv

\* A callback is counted, and waits in its handler.
LEMMA CallbackKeeps ==
  ASSUME IInv, NEW v \in Values, Callback(v), FlowKept
  PROVE  IInv'
<1>1. /\ port \in Logins /\ UNCHANGED <<pc, port, codeCh, errCh, code, outcome>>
      /\ UNCHANGED <<flow, token, ended, seen, report>>
      /\ handling' = [handling EXCEPT ![port][v] = @ + 1]
      /\ got' = [got EXCEPT ![port] = @ + 1]
  BY DEF Callback, FlowKept
<1>2. /\ handling \in [Logins -> [Values -> Nat]] /\ got \in [Logins -> Nat]
  BY DEF IInv, TypeOK, TypeOKLogin
<1>3. /\ handling' \in [Logins -> [Values -> Nat]]
      /\ handling'[port] = [handling[port] EXCEPT ![v] = @ + 1]
      /\ \A k \in Logins : k # port => handling'[k] = handling[k]
  BY <1>1, <1>2
<1>4. /\ got' \in [Logins -> Nat] /\ got'[port] = got[port] + 1
      /\ \A k \in Logins : k # port => got'[k] = got[k]
  BY <1>1, <1>2
<1>5. TypeOK'
  BY <1>1, <1>3, <1>4 DEF IInv, TypeOK, TypeOKLogin
<1>6. ASSUME NEW k \in Logins PROVE LoginSound(k)' /\ RunSound(k)'
  <2>1. CASE k # port
    BY <1>1, <1>3, <1>4, <2>1, Elsewhere
  <2>2. CASE k = port
    <3>1. pc[k] \in Listening
      BY <2>2 DEF IInv, LoginSound
    <3>2. \A w \in Values : handling'[k][w] = IF w = v THEN handling[k][w] + 1 ELSE handling[k][w]
      BY <1>2, <1>3, <2>2
    <3>3. codeCh[k] \in {<<>>} \cup {<<c>> : c \in Codes} /\ errCh[k] \in {<<>>, <<"error">>}
      BY DEF IInv, TypeOK, TypeOKLogin
    <3>4. Pending(k)' = Pending(k) + 1 /\ Pending(k) \in Nat
      <4>1. Len(codeCh[k]) \in Nat /\ Len(errCh[k]) \in Nat
        BY <3>3
      <4>2. handling[k]["own"] \in Nat /\ handling[k]["other"] \in Nat /\ handling[k]["error"] \in Nat
        BY <1>2 DEF Values, Codes
      <4>3. v \in {"own", "other", "error"}
        BY DEF Values, Codes
      <4>4. /\ handling'[k]["own"] = handling[k]["own"] + (IF v = "own" THEN 1 ELSE 0)
            /\ handling'[k]["other"] = handling[k]["other"] + (IF v = "other" THEN 1 ELSE 0)
            /\ handling'[k]["error"] = handling[k]["error"] + (IF v = "error" THEN 1 ELSE 0)
        <5>1. "own" \in Values /\ "other" \in Values /\ "error" \in Values
          BY DEF Values, Codes
        <5>2. QED
          BY <3>2, <4>2, <5>1
      <4>5. handling'[k]["own"] + handling'[k]["other"] + handling'[k]["error"]
              = handling[k]["own"] + handling[k]["other"] + handling[k]["error"] + 1
        BY <4>2, <4>3, <4>4
      <4>6. codeCh'[k] = codeCh[k] /\ errCh'[k] = errCh[k]
        BY <1>1
      <4> DEFINE h == handling[k]["own"] + handling[k]["other"] + handling[k]["error"]
                 hn == handling'[k]["own"] + handling'[k]["other"] + handling'[k]["error"]
                 s == Len(codeCh[k])
                 e == Len(errCh[k])
      <4>7. Pending(k) = h + s + e /\ Pending(k)' = hn + s + e
        BY <4>6 DEF Pending
      <4>8. h \in Nat
        BY <4>2
      <4>9. hn = h + 1
        BY <4>5
      <4>10. s \in Nat /\ e \in Nat
        BY <4>1
      <4> HIDE DEF h, hn, s, e
      <4>11. QED
        BY <4>7, <4>8, <4>9, <4>10
    <3>5. Taken(k)' = Taken(k) /\ Taken(k) \in Nat
      BY <1>1 DEF Taken
    <3>6. LoginSound(k)'
      <4>1. got[k] >= Pending(k) + Taken(k) /\ got[k] \in Nat
        BY <1>2, <3>1 DEF IInv, LoginSound
      <4>2. got'[k] >= Pending(k)' + Taken(k)'
        BY <1>4, <2>2, <3>4, <3>5, <4>1
      <4>3. QED
        BY <1>1, <3>1, <4>2 DEF IInv, LoginSound, Listening
    <3>7. RunSound(k)'
      BY <1>1 DEF IInv, RunSound
    <3>8. QED
      BY <3>6, <3>7
  <2>3. QED
    BY <2>1, <2>2
<1>7. QED
  BY <1>5, <1>6 DEF IInv

\* The channels of a login hold one value at most.
LEMMA Channels ==
  ASSUME IInv, NEW l \in Logins
  PROVE  /\ codeCh[l] = <<>> \/ (\E c \in Codes : codeCh[l] = <<c>>)
         /\ errCh[l] \in {<<>>, <<"error">>}
         /\ Len(codeCh[l]) \in Nat /\ Len(errCh[l]) \in Nat
         /\ handling[l]["own"] \in Nat /\ handling[l]["other"] \in Nat
         /\ handling[l]["error"] \in Nat
<1>1. /\ codeCh[l] \in {<<>>} \cup {<<c>> : c \in Codes} /\ errCh[l] \in {<<>>, <<"error">>}
      /\ handling[l] \in [Values -> Nat]
  BY DEF IInv, TypeOK, TypeOKLogin
<1>2. "own" \in Values /\ "other" \in Values /\ "error" \in Values
  BY DEF Values, Codes
<1>3. QED
  BY <1>1, <1>2

\* Callbacks are counted in natural numbers.
LEMMA PendingNat ==
  ASSUME IInv, NEW l \in Logins
  PROVE  Pending(l) \in Nat /\ Taken(l) \in Nat /\ got[l] \in Nat
<1> DEFINE h == handling[l]["own"] + handling[l]["other"] + handling[l]["error"]
           s == Len(codeCh[l])
           e == Len(errCh[l])
<1>1. h \in Nat
  BY Channels
<1>2. s \in Nat /\ e \in Nat
  BY Channels
<1>3. Pending(l) = h + s + e
  BY DEF Pending
<1> HIDE DEF h, s, e
<1>4. Pending(l) \in Nat
  BY <1>1, <1>2, <1>3
<1>5. QED
  BY <1>4 DEF Taken, IInv, TypeOK, TypeOKLogin

\* A login that is over has no part in the port, and nothing to count.
LEMMA LoginOver ==
  ASSUME NEW l \in Logins, pc'[l] \in {"returned", "flow", "exited"}, port' # l
  PROVE  LoginSound(l)'
BY DEF LoginSound, Listening

\* A handler's value moves into the channel.
LEMMA DeliverKeeps ==
  ASSUME IInv, NEW l \in Logins, NEW v \in Values, Deliver(l, v), FlowKept
  PROVE  IInv'
<1>1. /\ UNCHANGED <<pc, port, code, outcome, got>> /\ UNCHANGED <<flow, token, ended, seen, report>>
      /\ handling[l][v] > 0
      /\ handling' = [handling EXCEPT ![l][v] = @ - 1]
  BY DEF Deliver, FlowKept
<1>2. /\ handling \in [Logins -> [Values -> Nat]]
      /\ codeCh \in [Logins -> {<<>>} \cup {<<c>> : c \in Codes}]
      /\ errCh \in [Logins -> {<<>>, <<"error">>}]
  BY DEF IInv, TypeOK, TypeOKLogin
<1>3. /\ handling' \in [Logins -> [Values -> Nat]]
      /\ handling'[l] = [handling[l] EXCEPT ![v] = @ - 1]
      /\ \A k \in Logins : k # l => handling'[k] = handling[k]
  BY <1>1, <1>2
<1>4. /\ codeCh' \in [Logins -> {<<>>} \cup {<<c>> : c \in Codes}]
      /\ errCh' \in [Logins -> {<<>>, <<"error">>}]
      /\ \A k \in Logins : k # l => codeCh'[k] = codeCh[k] /\ errCh'[k] = errCh[k]
      /\ Len(codeCh'[l]) + Len(errCh'[l]) = Len(codeCh[l]) + Len(errCh[l]) + 1
  <2>1. CASE v = "error"
    <3>1. /\ errCh[l] = <<>> /\ errCh' = [errCh EXCEPT ![l] = Append(@, v)]
          /\ codeCh' = codeCh
      BY <1>2, <2>1 DEF Deliver, Room
    <3>2. Append(errCh[l], v) = <<"error">>
      BY <2>1, <3>1
    <3>3. /\ errCh'[l] = <<"error">> /\ errCh' \in [Logins -> {<<>>, <<"error">>}]
          /\ \A k \in Logins : k # l => errCh'[k] = errCh[k]
      BY <1>2, <3>1, <3>2
    <3>4. Len(errCh'[l]) = 1 /\ Len(errCh[l]) = 0 /\ Len(codeCh[l]) \in Nat
      BY <3>1, <3>3, Channels
    <3>5. QED
      BY <1>2, <3>1, <3>3, <3>4
  <2>2. CASE v # "error"
    <3>1. /\ codeCh[l] = <<>> /\ codeCh' = [codeCh EXCEPT ![l] = Append(@, v)]
          /\ errCh' = errCh /\ v \in Codes
      BY <1>2, <2>2 DEF Deliver, Room, Values
    <3>2. Append(codeCh[l], v) = <<v>>
      BY <3>1
    <3>3. /\ codeCh'[l] = <<v>> /\ codeCh' \in [Logins -> {<<>>} \cup {<<c>> : c \in Codes}]
          /\ \A k \in Logins : k # l => codeCh'[k] = codeCh[k]
      BY <1>2, <3>1, <3>2
    <3>4. Len(codeCh'[l]) = 1 /\ Len(codeCh[l]) = 0 /\ Len(errCh[l]) \in Nat
      BY <3>1, <3>3, Channels
    <3>5. QED
      BY <1>2, <3>1, <3>3, <3>4
  <2>3. QED
    BY <2>1, <2>2
<1>5. TypeOK'
  BY <1>1, <1>3, <1>4 DEF IInv, TypeOK, TypeOKLogin
<1>6. Pending(l)' = Pending(l)
  <2>1. "own" \in Values /\ "other" \in Values /\ "error" \in Values
        /\ v \in {"own", "other", "error"}
    BY DEF Values, Codes
  <2>2. /\ handling'[l]["own"] = handling[l]["own"] - (IF v = "own" THEN 1 ELSE 0)
        /\ handling'[l]["other"] = handling[l]["other"] - (IF v = "other" THEN 1 ELSE 0)
        /\ handling'[l]["error"] = handling[l]["error"] - (IF v = "error" THEN 1 ELSE 0)
    BY <1>2, <1>3, <2>1
  <2> DEFINE h == handling[l]["own"] + handling[l]["other"] + handling[l]["error"]
             hn == handling'[l]["own"] + handling'[l]["other"] + handling'[l]["error"]
             s == Len(codeCh[l])
             e == Len(errCh[l])
             sn == Len(codeCh'[l])
             en == Len(errCh'[l])
  <2>3. hn = h - 1 /\ h \in Nat
    BY <2>1, <2>2, Channels
  <2>4. s \in Nat /\ e \in Nat
    BY Channels
  <2>5. sn \in Nat /\ en \in Nat
    BY <1>4
  <2>6. sn + en = s + e + 1
    BY <1>4
  <2>7. Pending(l) = h + s + e /\ Pending(l)' = hn + sn + en
    BY DEF Pending
  <2> HIDE DEF h, hn, s, e, sn, en
  <2>8. QED
    BY <2>3, <2>4, <2>5, <2>6, <2>7
<1>7. ASSUME NEW k \in Logins PROVE LoginSound(k)' /\ RunSound(k)'
  <2>1. CASE k # l
    BY <1>1, <1>3, <1>4, <2>1, Elsewhere
  <2>2. CASE k = l
    <3>1. pc[l] # "start"
      BY <1>1 DEF IInv, LoginSound
    <3>2. Taken(l)' = Taken(l)
      BY <1>1 DEF Taken
    <3>3. LoginSound(l)'
      BY <1>1, <1>6, <3>1, <3>2 DEF IInv, LoginSound
    <3>4. RunSound(l)'
      BY <1>1 DEF IInv, RunSound
    <3>5. QED
      BY <2>2, <3>3, <3>4
  <2>3. QED
    BY <2>1, <2>2
<1>8. QED
  BY <1>5, <1>7 DEF IInv

\* select takes a code, an error, or the time limit: what was waiting in a channel
\* is counted as taken.
LEMMA SelectKeeps ==
  ASSUME IInv, NEW l \in Logins, TakeCode(l) \/ TakeError(l) \/ TimeOut(l), FlowKept
  PROVE  IInv'
<1>1. /\ pc[l] = "waiting" /\ UNCHANGED <<port, handling, got>>
      /\ UNCHANGED <<flow, token, ended, seen, report>>
      /\ code[l] = "none" /\ outcome[l] = "none"
  BY DEF TakeCode, TakeError, TimeOut, FlowKept, IInv, LoginSound
<1>2. /\ pc \in [Logins -> Places] /\ code \in [Logins -> Codes \cup {"none"}]
      /\ outcome \in [Logins -> Outcomes]
      /\ codeCh \in [Logins -> {<<>>} \cup {<<c>> : c \in Codes}]
      /\ errCh \in [Logins -> {<<>>, <<"error">>}]
  BY DEF IInv, TypeOK, TypeOKLogin
<1>3. PICK place \in {"exchange", "closing"} : pc' = [pc EXCEPT ![l] = place]
  BY DEF TakeCode, TakeError, TimeOut, Goto
<1>4. pc' \in [Logins -> Places] /\ pc'[l] = place
  BY <1>2, <1>3 DEF Places, Listening
<1>5. /\ code' \in [Logins -> Codes \cup {"none"}] /\ outcome' \in [Logins -> Outcomes]
      /\ codeCh' \in [Logins -> {<<>>} \cup {<<c>> : c \in Codes}]
      /\ errCh' \in [Logins -> {<<>>, <<"error">>}]
      /\ place = "exchange" <=> TakeCode(l)
      /\ place = "exchange" => code'[l] # "none" /\ outcome'[l] = "none"
      /\ place = "closing" => outcome'[l] \in {"denied", "timeout"} /\ code'[l] = "none"
      /\ Len(codeCh'[l]) + Len(errCh'[l]) + Taken(l)' = Len(codeCh[l]) + Len(errCh[l])
      /\ \A k \in Logins : k # l =>
           /\ code'[k] = code[k] /\ outcome'[k] = outcome[k]
           /\ codeCh'[k] = codeCh[k] /\ errCh'[k] = errCh[k]
  <2>1. CASE TakeCode(l)
    <3>1. PICK c \in Codes : codeCh[l] = <<c>>
      BY <2>1, Channels DEF TakeCode
    <3>2. Head(codeCh[l]) = c /\ Tail(codeCh[l]) = <<>> /\ c # "none"
      BY <3>1 DEF Codes
    <3>3. /\ code' = [code EXCEPT ![l] = c] /\ codeCh' = [codeCh EXCEPT ![l] = <<>>]
          /\ UNCHANGED <<errCh, outcome>> /\ pc'[l] = "exchange"
      BY <1>2, <2>1, <3>2 DEF TakeCode, Goto
    <3>4. codeCh'[l] = <<>> /\ Len(codeCh'[l]) = 0 /\ Len(codeCh[l]) = 1
      BY <1>2, <3>1, <3>3
    <3>5. code'[l] = c /\ Taken(l)' = 1
      BY <1>2, <3>2, <3>3 DEF Taken
    <3>6. Len(codeCh'[l]) + Len(errCh'[l]) + Taken(l)' = Len(codeCh[l]) + Len(errCh[l])
      <4>1. Len(errCh'[l]) = Len(errCh[l])
        BY <3>3
      <4>2. Len(errCh[l]) \in Nat
        BY Channels
      <4> DEFINE a == Len(errCh[l])
      <4> HIDE DEF a
      <4>3. Len(errCh[l]) = a /\ a \in Nat
        BY <4>2 DEF a
      <4>4. QED
        BY <3>4, <3>5, <4>1, <4>3
    <3>7. /\ code' \in [Logins -> Codes \cup {"none"}]
          /\ codeCh' \in [Logins -> {<<>>} \cup {<<d>> : d \in Codes}]
      BY <1>2, <3>3
    <3>8. place = "exchange"
      BY <1>4, <3>3
    <3>9. \A k \in Logins : k # l =>
            /\ code'[k] = code[k] /\ outcome'[k] = outcome[k]
            /\ codeCh'[k] = codeCh[k] /\ errCh'[k] = errCh[k]
      BY <1>2, <3>3
    <3>10. code'[l] # "none" /\ outcome'[l] = "none"
      BY <1>1, <3>2, <3>3, <3>5
    <3>11. outcome' \in [Logins -> Outcomes] /\ errCh' \in [Logins -> {<<>>, <<"error">>}]
      BY <1>2, <3>3
    <3>12. QED
      BY <2>1, <3>6, <3>7, <3>8, <3>9, <3>10, <3>11
  <2>2. CASE TakeError(l)
    <3>1. errCh[l] = <<"error">>
      BY <2>2, Channels DEF TakeError
    <3>2. Tail(errCh[l]) = <<>>
      BY <3>1
    <3>3. /\ outcome' = [outcome EXCEPT ![l] = "denied"] /\ errCh' = [errCh EXCEPT ![l] = <<>>]
          /\ UNCHANGED <<codeCh, code>> /\ pc'[l] = "closing"
      BY <1>2, <2>2, <3>2 DEF TakeError, Goto, Result
    <3>4. errCh'[l] = <<>> /\ Len(errCh'[l]) = 0 /\ Len(errCh[l]) = 1
      BY <1>2, <3>1, <3>3
    <3>5. outcome'[l] = "denied" /\ Taken(l)' = 1
      BY <1>2, <3>3 DEF Taken
    <3>6. Len(codeCh'[l]) + Len(errCh'[l]) + Taken(l)' = Len(codeCh[l]) + Len(errCh[l])
      <4>1. Len(codeCh'[l]) = Len(codeCh[l])
        BY <3>3
      <4>2. Len(codeCh[l]) \in Nat
        BY Channels
      <4> DEFINE a == Len(codeCh[l])
      <4> HIDE DEF a
      <4>3. Len(codeCh[l]) = a /\ a \in Nat
        BY <4>2 DEF a
      <4>4. QED
        BY <3>4, <3>5, <4>1, <4>3
    <3>7. outcome' \in [Logins -> Outcomes] /\ errCh' \in [Logins -> {<<>>, <<"error">>}]
      BY <1>2, <3>3 DEF Outcomes
    <3>8. place = "closing"
      BY <1>4, <3>3
    <3>9. \A k \in Logins : k # l =>
            /\ code'[k] = code[k] /\ outcome'[k] = outcome[k]
            /\ codeCh'[k] = codeCh[k] /\ errCh'[k] = errCh[k]
      BY <1>2, <3>3
    <3>10. outcome'[l] \in {"denied", "timeout"} /\ code'[l] = "none"
      BY <1>1, <3>3, <3>5
    <3>11. /\ code' \in [Logins -> Codes \cup {"none"}]
           /\ codeCh' \in [Logins -> {<<>>} \cup {<<d>> : d \in Codes}]
      BY <1>2, <3>3
    <3>12. ~TakeCode(l)
      BY <1>1, <3>3, <1>2 DEF TakeCode, Goto
    <3>13. QED
      BY <3>6, <3>7, <3>8, <3>9, <3>10, <3>11, <3>12
  <2>3. CASE TimeOut(l)
    <3>1. /\ outcome' = [outcome EXCEPT ![l] = "timeout"]
          /\ UNCHANGED <<codeCh, errCh, code>> /\ pc'[l] = "closing"
      BY <1>2, <2>3 DEF TimeOut, Goto, Result
    <3>2. outcome'[l] = "timeout" /\ code'[l] = "none" /\ Taken(l)' = 0
      BY <1>1, <1>2, <3>1 DEF Taken
    <3>3. Len(codeCh'[l]) + Len(errCh'[l]) + Taken(l)' = Len(codeCh[l]) + Len(errCh[l])
      BY <3>1, <3>2, Channels
    <3>4. outcome' \in [Logins -> Outcomes]
      BY <1>2, <3>1 DEF Outcomes
    <3>5. place = "closing"
      BY <1>4, <3>1
    <3>6. \A k \in Logins : k # l =>
            /\ code'[k] = code[k] /\ outcome'[k] = outcome[k]
            /\ codeCh'[k] = codeCh[k] /\ errCh'[k] = errCh[k]
      BY <1>2, <3>1
    <3>7. /\ code' \in [Logins -> Codes \cup {"none"}]
          /\ codeCh' \in [Logins -> {<<>>} \cup {<<d>> : d \in Codes}]
          /\ errCh' \in [Logins -> {<<>>, <<"error">>}]
      BY <1>2, <3>1
    <3>8. ~TakeCode(l)
      BY <1>1, <3>1, <1>2 DEF TakeCode, Goto
    <3>9. QED
      BY <3>2, <3>3, <3>4, <3>5, <3>6, <3>7, <3>8
  <2>4. QED
    BY <2>1, <2>2, <2>3
<1>6. TypeOK'
  BY <1>1, <1>4, <1>5 DEF IInv, TypeOK, TypeOKLogin
<1>7. got'[l] >= Pending(l)' + Taken(l)'
  <2> DEFINE h == handling[l]["own"] + handling[l]["other"] + handling[l]["error"]
             s == Len(codeCh[l])
             e == Len(errCh[l])
             sn == Len(codeCh'[l])
             en == Len(errCh'[l])
  <2>1. got[l] >= Pending(l) + Taken(l) /\ got' = got /\ Taken(l) = 0
    BY <1>1 DEF IInv, LoginSound, Listening, Taken
  <2>2. h \in Nat
    BY Channels
  <2>3. s \in Nat /\ e \in Nat
    BY Channels
  <2>4. sn \in Nat /\ en \in Nat /\ Taken(l)' \in Nat
    BY <1>5 DEF Taken
  <2>5. sn + en + Taken(l)' = s + e
    BY <1>5
  <2>6. Pending(l) = h + s + e /\ Pending(l)' = h + sn + en
    BY <1>1 DEF Pending
  <2>7. got[l] \in Nat
    BY PendingNat
  <2> HIDE DEF h, s, e, sn, en
  <2>8. QED
    BY <2>1, <2>2, <2>3, <2>4, <2>5, <2>6, <2>7
<1>8. ASSUME NEW k \in Logins PROVE LoginSound(k)' /\ RunSound(k)'
  <2>1. CASE k # l
    BY <1>1, <1>2, <1>3, <1>5, <2>1, Elsewhere
  <2>2. CASE k = l
    <3>1. port' = l
      BY <1>1 DEF IInv, LoginSound, Listening
    <3>2. LoginSound(l)'
      BY <1>4, <1>5, <1>7, <3>1 DEF LoginSound, Listening
    <3>3. RunSound(l)'
      BY <1>1, <1>4 DEF IInv, RunSound
    <3>4. QED
      BY <2>2, <3>2, <3>3
  <2>3. QED
    BY <2>1, <2>2
<1>9. QED
  BY <1>6, <1>8 DEF IInv

\* A token comes from the exchange, and with it.
LEMMA RedeemKeeps ==
  ASSUME IInv, NEW l \in Logins, Redeem(l)
  PROVE  IInv'
<1>1. /\ pc[l] = "exchange" /\ UNCHANGED <<port, handling, codeCh, errCh, code, got>>
      /\ UNCHANGED <<flow, ended, seen, report>>
      /\ pc' = [pc EXCEPT ![l] = "closing"]
      /\ token' = [token EXCEPT ![l] = IF outcome'[l] = "tokens" THEN "good" ELSE @]
      /\ code[l] # "none" /\ token[l] = "none" /\ report[l] = "none"
  BY DEF Redeem, Exchange, Goto, IInv, LoginSound, RunSound
<1>2. PICK o \in {"tokens", "hollow", "refused"} : outcome' = [outcome EXCEPT ![l] = o]
  BY DEF Redeem, Exchange, Result
<1>3. /\ pc \in [Logins -> Places] /\ outcome \in [Logins -> Outcomes]
      /\ token \in [Logins -> Tokens]
  BY DEF IInv, TypeOK, TypeOKLogin
<1>4. /\ pc'[l] = "closing" /\ outcome'[l] = o
      /\ token'[l] = IF o = "tokens" THEN "good" ELSE "none"
      /\ \A k \in Logins : k # l =>
           pc'[k] = pc[k] /\ outcome'[k] = outcome[k] /\ token'[k] = token[k]
  BY <1>1, <1>2, <1>3
<1>5. pc' \in [Logins -> Places] /\ outcome' \in [Logins -> Outcomes]
  BY <1>1, <1>2, <1>3 DEF Places, Listening, Outcomes
<1>6. token' \in [Logins -> Tokens]
  <2>1. \E t \in Tokens : token' = [token EXCEPT ![l] = t]
    BY <1>1, <1>3 DEF Tokens
  <2>2. QED
    BY <1>3, <2>1
<1>7. TypeOK'
  BY <1>1, <1>5, <1>6 DEF IInv, TypeOK, TypeOKLogin
<1>8. ASSUME NEW k \in Logins PROVE LoginSound(k)' /\ RunSound(k)'
  <2>1. CASE k # l
    BY <1>1, <1>4, <2>1, Elsewhere
  <2>2. CASE k = l
    <3>1. Pending(l)' = Pending(l) /\ Taken(l)' = 1 /\ Taken(l) = 1
      BY <1>1 DEF Pending, Taken
    <3>2. LoginSound(l)'
      BY <1>1, <1>4, <3>1 DEF IInv, LoginSound, Listening
    <3>3. RunSound(l)'
      BY <1>1, <1>4 DEF IInv, RunSound
    <3>4. QED
      BY <2>2, <3>2, <3>3
  <2>3. QED
    BY <2>1, <2>2
<1>9. QED
  BY <1>7, <1>8 DEF IInv

\* The port is given back by its owner.
LEMMA ShutdownKeeps ==
  ASSUME IInv, NEW l \in Logins, Shutdown(l), FlowKept
  PROVE  IInv'
<1>1. /\ pc[l] = "closing" /\ UNCHANGED <<handling, codeCh, errCh, code, outcome, got>>
      /\ UNCHANGED <<flow, token, ended, seen, report>>
      /\ pc' = [pc EXCEPT ![l] = "draining"] /\ port' = "free"
  BY DEF Shutdown, Goto, FlowKept
<1>2. pc \in [Logins -> Places] /\ port = l
  BY <1>1 DEF IInv, TypeOK, TypeOKLogin, LoginSound, Listening
<1>3. /\ pc' \in [Logins -> Places] /\ pc'[l] = "draining"
      /\ \A k \in Logins : k # l => pc'[k] = pc[k] /\ (port' = k <=> port = k)
  BY <1>1, <1>2, LoginsAssumption DEF Places
<1>4. TypeOK'
  BY <1>1, <1>3 DEF IInv, TypeOK, TypeOKLogin
<1>5. ASSUME NEW k \in Logins PROVE LoginSound(k)' /\ RunSound(k)'
  <2>1. CASE k # l
    BY <1>1, <1>3, <2>1, Elsewhere
  <2>2. CASE k = l
    <3>1. Pending(l)' = Pending(l) /\ Taken(l)' = Taken(l)
      BY <1>1 DEF Pending, Taken
    <3>2. LoginSound(l)'
      BY <1>1, <1>3, <3>1, LoginsAssumption DEF IInv, LoginSound, Listening
    <3>3. RunSound(l)'
      BY <1>1, <1>3 DEF IInv, RunSound
    <3>4. QED
      BY <2>2, <3>2, <3>3
  <2>3. QED
    BY <2>1, <2>2
<1>6. QED
  BY <1>4, <1>5 DEF IInv

\* A login returns when its handlers are over, or the user ends the program.
LEMMA LeaveKeeps ==
  ASSUME IInv, NEW l \in Logins, Drained(l) \/ Interrupt(l), FlowKept
  PROVE  IInv'
<1>1. /\ pc[l] \in Listening \cup {"draining"} /\ UNCHANGED <<outcome, got>>
      /\ UNCHANGED <<flow, token, ended, seen, report>>
      /\ codeCh' = [codeCh EXCEPT ![l] = <<>>] /\ errCh' = [errCh EXCEPT ![l] = <<>>]
      /\ code' = [code EXCEPT ![l] = "none"]
  BY DEF Drained, Interrupt, Forget, FlowKept
<1>2. PICK place \in {"returned", "exited"} : pc' = [pc EXCEPT ![l] = place]
  BY DEF Drained, Interrupt, Goto
<1>3. /\ pc \in [Logins -> Places] /\ code \in [Logins -> Codes \cup {"none"}]
      /\ port \in Logins \cup {"free"}
      /\ handling \in [Logins -> [Values -> Nat]]
      /\ codeCh \in [Logins -> {<<>>} \cup {<<c>> : c \in Codes}]
      /\ errCh \in [Logins -> {<<>>, <<"error">>}]
  BY DEF IInv, TypeOK, TypeOKLogin
<1>4. /\ pc'[l] = place
      /\ \A k \in Logins : k # l => /\ pc'[k] = pc[k] /\ code'[k] = code[k]
                                    /\ codeCh'[k] = codeCh[k] /\ errCh'[k] = errCh[k]
  BY <1>1, <1>2, <1>3
<1>5. /\ pc' \in [Logins -> Places] /\ code' \in [Logins -> Codes \cup {"none"}]
      /\ codeCh' \in [Logins -> {<<>>} \cup {<<c>> : c \in Codes}]
      /\ errCh' \in [Logins -> {<<>>, <<"error">>}]
  BY <1>1, <1>2, <1>3 DEF Places
<1>6. /\ handling' \in [Logins -> [Values -> Nat]]
      /\ \A k \in Logins : k # l => handling'[k] = handling[k]
  <2>1. [v \in Values |-> 0] \in [Values -> Nat]
    OBVIOUS
  <2>2. CASE Drained(l)
    BY <1>3, <2>2 DEF Drained
  <2>3. CASE Interrupt(l)
    BY <1>3, <2>1, <2>3 DEF Interrupt
  <2>4. QED
    BY <2>2, <2>3
<1>7. /\ port' \in Logins \cup {"free"} /\ port' # l
      /\ \A k \in Logins : k # l => (port' = k <=> port = k)
  <2>1. CASE Drained(l)
    BY <1>3, <2>1 DEF Drained, IInv, LoginSound, Listening
  <2>2. CASE Interrupt(l)
    BY <1>3, <2>2, LoginsAssumption DEF Interrupt
  <2>3. QED
    BY <2>1, <2>2
<1>8. TypeOK'
  BY <1>1, <1>5, <1>6, <1>7 DEF IInv, TypeOK, TypeOKLogin
<1>9. ASSUME NEW k \in Logins PROVE LoginSound(k)' /\ RunSound(k)'
  <2>1. CASE k # l
    BY <1>1, <1>4, <1>6, <1>7, <2>1, Elsewhere
  <2>2. CASE k = l
    <3>1. LoginSound(l)'
      BY <1>4, <1>7, LoginOver
    <3>2. RunSound(l)'
      BY <1>1, <1>4 DEF IInv, RunSound, Listening
    <3>3. QED
      BY <2>2, <3>1, <3>2
  <2>3. QED
    BY <2>1, <2>2
<1>10. QED
  BY <1>8, <1>9 DEF IInv

\* A step of the run behind its login: it goes on to place, having seen x, and may
\* print r.
LEMMA FlowKeeps ==
  ASSUME IInv, NEW l \in Logins, pc[l] \in {"returned", "flow"},
         NEW place \in {"flow", "exited"}, NEW r \in Reports, NEW x \in Sights,
         pc' = [pc EXCEPT ![l] = place], report' = [report EXCEPT ![l] = r],
         seen' = [seen EXCEPT ![l] = x],
         r # "none" => place = "exited",
         r = "pass" \/ x = "invalid_grant" => token'[l] \in {"own", "other"},
         flow[l] = "discovery" => x \in {"none", "absent", "present"},
         r \in {"claims", "absent", "present", "stable", "pass"} => outcome[l] = "tokens",
         UNCHANGED <<port, handling, codeCh, errCh, code, outcome, got, flow>>,
         token' \in [Logins -> Tokens], ended' \in [Logins -> BOOLEAN],
         \A k \in Logins :
           token'[k] = token[k] \/ (token[k] = "good" /\ token'[k] \in {"own", "other"})
  PROVE  IInv'
<1>1. pc \in [Logins -> Places] /\ report \in [Logins -> Reports] /\ seen \in [Logins -> Sights]
  BY DEF IInv, TypeOK, TypeOKLogin
<1>2. /\ pc' \in [Logins -> Places] /\ report' \in [Logins -> Reports]
      /\ seen' \in [Logins -> Sights]
      /\ pc'[l] = place /\ report'[l] = r /\ seen'[l] = x
      /\ \A k \in Logins : k # l =>
           pc'[k] = pc[k] /\ report'[k] = report[k] /\ seen'[k] = seen[k]
  BY <1>1 DEF Places
<1>3. TypeOK'
  BY <1>2 DEF IInv, TypeOK, TypeOKLogin
<1>4. ASSUME NEW k \in Logins PROVE LoginSound(k)' /\ RunSound(k)'
  <2>1. CASE k # l
    BY <1>2, <2>1, Elsewhere
  <2>2. CASE k = l
    <3>1. LoginSound(l)'
      BY <1>2, LoginOver DEF IInv, LoginSound, Listening
    <3>2. RunSound(l)'
      BY <1>2 DEF IInv, RunSound
    <3>3. QED
      BY <2>2, <3>1, <3>2
  <2>3. QED
    BY <2>1, <2>2
<1>5. QED
  BY <1>3, <1>4 DEF IInv

\* A request that ends sessions is executed or not: nothing happens but that good
\* tokens die, the run's own among them.
LEMMA Executed ==
  ASSUME IInv, NEW l \in Logins, EndSession(l)
  PROVE  \/ token' = token
         \/ \E others \in SUBSET Logins :
              /\ token[l] = "good" /\ token' = Kill(l, others)
              /\ \A k \in others : k # l /\ flow[k] # "offline"
              /\ others # {} => flow[l] \in {"logout", "revoke"}
<1>1. flow[l] \in Ending
  BY DEF EndSession, At
<1>2. ASSUME NEW others \in DieWith(l)
      PROVE  /\ others \in SUBSET Logins
             /\ \A k \in others : k # l /\ flow[k] # "offline"
             /\ others # {} => flow[l] \in {"logout", "revoke"}
  BY <1>1, <1>2 DEF DieWith, Ending
<1>3. QED
  BY <1>2 DEF EndSession

\* What such a request does to the tokens.
LEMMA KillTokens ==
  ASSUME IInv, NEW l \in Logins, NEW others
  PROVE  /\ Kill(l, others) \in [Logins -> Tokens]
         /\ \A k \in Logins :
              \/ Kill(l, others)[k] = token[k]
              \/ token[k] = "good" /\ Kill(l, others)[k] \in {"own", "other"}
BY DEF Kill, Tokens, IInv, TypeOK

\* The steps of the flows.
LEMMA FlowsKeep ==
  ASSUME IInv, NEW l \in Logins,
         \/ Begin(l) \/ Inspect(l) \/ ReadGroups(l) \/ Discover(l) \/ Refresh(l)
         \/ EndSession(l) \/ TryRefresh(l) \/ Verify(l)
  PROVE  IInv'
<1>1. /\ pc \in [Logins -> Places] /\ report \in [Logins -> Reports]
      /\ token \in [Logins -> Tokens] /\ ended \in [Logins -> BOOLEAN]
      /\ seen \in [Logins -> Sights]
  BY DEF IInv, TypeOK, TypeOKLogin
<1>2. pc[l] \in {"returned", "flow"} /\ report[l] = "none" /\ "none" \in Reports
  BY DEF Begin, Inspect, ReadGroups, Discover, Refresh, EndSession, TryRefresh, Verify, At,
         IInv, RunSound, Reports
<1>3. /\ token[l] # "none" => outcome[l] = "tokens"
      /\ seen[l] = "invalid_grant" => token[l] \in {"own", "other"}
      /\ flow[l] = "discovery" => seen[l] \in {"none", "absent", "present"}
  BY DEF IInv, RunSound
<1>4. CASE Begin(l)
  <2>1. PICK place \in {"flow", "exited"} : pc' = [pc EXCEPT ![l] = place]
    BY <1>4 DEF Begin, Goto
  <2>2. report' = [report EXCEPT ![l] = "none"] /\ seen' = [seen EXCEPT ![l] = seen[l]]
    BY <1>1, <1>2, <1>4 DEF Begin
  <2>3. UNCHANGED <<port, handling, codeCh, errCh, code, outcome, got, flow, token, ended>>
    BY <1>4 DEF Begin
  <2>4. token' \in [Logins -> Tokens] /\ ended' \in [Logins -> BOOLEAN]
        /\ \A k \in Logins : token'[k] = token[k]
    BY <1>1, <2>3
  <2>5. QED
    BY <1>1, <1>2, <1>3, <2>1, <2>2, <2>3, <2>4, FlowKeeps
<1>5. ASSUME NEW r \in Reports, End(l, r), UNCHANGED <<token, seen>>,
             ended' \in [Logins -> BOOLEAN],
             r = "pass" => token[l] \in {"own", "other"},
             r \in {"claims", "absent", "present", "stable", "pass"} => outcome[l] = "tokens"
      PROVE  IInv'
  <2>1. token' \in [Logins -> Tokens] /\ \A k \in Logins : token'[k] = token[k]
    BY <1>1, <1>5
  <2>2. /\ UNCHANGED <<port, handling, codeCh, errCh, code, outcome, got, flow>>
        /\ pc' = [pc EXCEPT ![l] = "exited"] /\ report' = [report EXCEPT ![l] = r]
        /\ seen' = [seen EXCEPT ![l] = seen[l]]
    BY <1>1, <1>5 DEF End, Goto
  <2>3. QED
    BY <1>1, <1>2, <1>3, <1>5, <2>1, <2>2, FlowKeeps
<1>6. ASSUME NEW x \in Sights, See(l, x), pc[l] = "flow", UNCHANGED token,
             x = "invalid_grant" => token[l] \in {"own", "other"},
             flow[l] = "discovery" => x \in {"absent", "present"}
      PROVE  IInv'
  <2>1. /\ UNCHANGED <<port, handling, codeCh, errCh, code, outcome, got, flow, ended>>
        /\ pc' = pc /\ report' = report /\ seen' = [seen EXCEPT ![l] = x]
    BY <1>6 DEF See, login
  <2>2. pc' = [pc EXCEPT ![l] = "flow"] /\ report' = [report EXCEPT ![l] = "none"]
    BY <1>1, <1>2, <1>6, <2>1
  <2>3. token' \in [Logins -> Tokens] /\ ended' \in [Logins -> BOOLEAN]
        /\ \A k \in Logins : token'[k] = token[k]
    BY <1>1, <1>6, <2>1
  <2>4. QED
    BY <1>2, <1>6, <2>1, <2>2, <2>3, FlowKeeps
<1>7. CASE Inspect(l) \/ Discover(l) \/ Refresh(l) \/ Verify(l)
  <2>1. \E r \in Reports :
          /\ End(l, r)
          /\ r = "pass" => token[l] \in {"own", "other"}
          /\ r \in {"claims", "absent", "present", "stable", "pass"} => outcome[l] = "tokens"
    <3>1. CASE Inspect(l)
      BY <3>1 DEF Inspect, Reports
    <3>2. CASE Discover(l)
      <4>1. seen[l] \in {"absent", "present"}
        BY <3>2 DEF Discover, At, IInv, RunSound
      <4>2. QED
        BY <3>2, <4>1 DEF Discover, Reports
    <3>3. CASE Refresh(l)
      BY <1>3, <3>3 DEF Refresh, Reports
    <3>4. CASE Verify(l)
      BY <1>3, <3>4 DEF Verify, Reports
    <3>5. QED
      BY <1>7, <3>1, <3>2, <3>3, <3>4
  <2>2. UNCHANGED <<token, ended, seen>>
    BY <1>7 DEF Inspect, Discover, Refresh, Verify
  <2>3. QED
    BY <1>1, <1>5, <2>1, <2>2
<1>8. CASE ReadGroups(l)
  <2>1. \E x \in {"absent", "present"} : See(l, x)
    BY <1>8 DEF ReadGroups
  <2>2. pc[l] = "flow" /\ UNCHANGED token
    BY <1>8 DEF ReadGroups, At
  <2>3. QED
    BY <1>6, <2>1, <2>2 DEF Sights
<1>9. CASE TryRefresh(l)
  <2>1. pc[l] = "flow" /\ flow[l] # "discovery" /\ UNCHANGED token
    BY <1>9 DEF TryRefresh, At, Ending
  <2>2. CASE \E reply \in Replies(l) : See(l, reply)
    <3>1. \A reply \in Replies(l) :
            reply \in Sights /\ (reply = "invalid_grant" => token[l] \in {"own", "other"})
      BY <1>1 DEF Replies, Sights, Tokens
    <3>2. QED
      BY <1>6, <2>1, <2>2, <3>1
  <2>3. CASE End(l, "none") /\ UNCHANGED <<ended, seen>>
    BY <1>1, <1>2, <1>5, <2>1, <2>3
  <2>4. QED
    BY <1>9, <2>2, <2>3 DEF TryRefresh
<1>10. CASE EndSession(l)
  <2>1. /\ token' \in [Logins -> Tokens]
        /\ \A k \in Logins :
             token'[k] = token[k] \/ (token[k] = "good" /\ token'[k] \in {"own", "other"})
    BY <1>1, <1>10, Executed, KillTokens
  <2>2. ended' \in [Logins -> BOOLEAN] /\ seen' = [seen EXCEPT ![l] = seen[l]]
    BY <1>1, <1>10 DEF EndSession
  <2>3. PICK place \in {"flow", "exited"} :
          /\ pc' = [pc EXCEPT ![l] = place] /\ report' = [report EXCEPT ![l] = "none"]
          /\ UNCHANGED <<port, handling, codeCh, errCh, code, outcome, got, flow>>
    <3>1. CASE UNCHANGED <<login, flow, report>>
      BY <1>1, <1>2, <1>10, <3>1 DEF EndSession, At, login
    <3>2. CASE End(l, "none")
      BY <3>2 DEF End, Goto
    <3>3. QED
      BY <1>10, <3>1, <3>2 DEF EndSession
  <2>4. seen[l] = "invalid_grant" => token'[l] \in {"own", "other"}
    BY <1>3, <2>1
  <2>5. QED
    BY <1>1, <1>2, <1>3, <2>1, <2>2, <2>3, <2>4, FlowKeeps
<1>11. QED
  BY <1>4, <1>7, <1>8, <1>9, <1>10

\* Every action keeps the invariant.
LEMMA NextIInv == IInv /\ [Next]_vars => IInv'
<1> SUFFICES ASSUME IInv, [Next]_vars PROVE IInv'
  OBVIOUS
<1>1. CASE UNCHANGED vars
  BY <1>1 DEF vars, login, IInv, TypeOK, TypeOKLogin, LoginSound, RunSound, Pending, Taken
<1>2. ASSUME NEW l \in Logins, Runs(l) PROVE IInv'
  <2>1. CASE InLogin(l)
    BY <2>1, ListenKeeps, DeliverKeeps, SelectKeeps, ShutdownKeeps, LeaveKeeps
       DEF InLogin, LoginRuns, FlowKept
  <2>2. CASE ~InLogin(l)
    BY <1>2, <2>2, RedeemKeeps, FlowsKeep DEF Runs
  <2>3. QED
    BY <2>1, <2>2
<1>3. ASSUME NEW l \in Logins, Killed(l) PROVE IInv'
  BY <1>3, LeaveKeeps DEF Killed, FlowKept
<1>4. CASE Browser
  BY <1>4, CallbackKeeps DEF Browser, FlowKept
<1>5. QED
  BY <1>1, <1>2, <1>3, <1>4 DEF Next

\* Every login and every run is sound at all times.
LEMMA Invariance == Spec => []IInv
BY InitIInv, NextIInv, PTL DEF Spec

-----------------------------------------------------------------------------
\* Every variable keeps its type, the channels their capacity.
THEOREM TypeCorrect == Spec => []TypeOK
<1>1. IInv => TypeOK
  BY DEF IInv
<1>2. QED
  BY <1>1, Invariance, PTL

\* A token that died by its own run's request was named in one; a token that died
\* with others is no offline token, and a run that ends sessions has lost its own.
Caused ==
  \A l \in Logins :
    /\ token[l] = "own" => ended[l]
    /\ token[l] = "other" =>
         /\ flow[l] # "offline"
         /\ \E k \in Logins \ {l} :
              flow[k] \in {"logout", "revoke"} /\ ended[k] /\ token[k] = "own"

\* What has died stays dead, of the same cause.
LEMMA CauseStays ==
  ASSUME Caused, UNCHANGED flow,
         \A k \in Logins : ended[k] => ended'[k],
         \A k \in Logins :
           token[k] \in {"own", "other"} \/ token'[k] \in {"own", "other"} => token'[k] = token[k]
  PROVE  Caused'
BY DEF Caused

\* A request that is executed is the cause of what dies of it.
LEMMA RequestIsCause ==
  ASSUME IInv, Caused, NEW l \in Logins, EndSession(l)
  PROVE  Caused'
<1>1. /\ token \in [Logins -> Tokens] /\ ended \in [Logins -> BOOLEAN]
      /\ ended' = [ended EXCEPT ![l] = TRUE]
  BY DEF EndSession, IInv, TypeOK
<1>2. UNCHANGED flow
  BY DEF EndSession, End
<1>3. ended'[l] /\ \A k \in Logins : ended[k] => ended'[k]
  BY <1>1
<1>4. CASE token' = token
  BY <1>2, <1>3, <1>4, CauseStays
<1>5. ASSUME NEW others \in SUBSET Logins, token[l] = "good", token' = Kill(l, others),
             \A k \in others : k # l /\ flow[k] # "offline",
             others # {} => flow[l] \in {"logout", "revoke"}
      PROVE  Caused'
  <2>1. /\ token'[l] = "own"
        /\ \A k \in Logins : token'[k] =
             IF token[k] # "good" THEN token[k]
             ELSE IF k = l THEN "own" ELSE IF k \in others THEN "other" ELSE "good"
    BY <1>5 DEF Kill
  <2>2. ASSUME NEW k \in Logins, token'[k] = "own"
        PROVE  ended'[k]
    BY <1>3, <2>1, <2>2 DEF Caused
  <2>3. ASSUME NEW k \in Logins, token'[k] = "other"
        PROVE  /\ flow'[k] # "offline"
               /\ \E m \in Logins \ {k} :
                    flow'[m] \in {"logout", "revoke"} /\ ended'[m] /\ token'[m] = "own"
    <3>1. CASE token[k] = "good"
      <4>1. k \in others /\ k # l
        BY <2>1, <2>3, <3>1
      <4>2. QED
        BY <1>2, <1>3, <1>5, <2>1, <4>1
    <3>2. CASE token[k] # "good"
      <4>1. PICK m \in Logins \ {k} :
              flow[m] \in {"logout", "revoke"} /\ ended[m] /\ token[m] = "own"
        BY <2>1, <2>3, <3>2 DEF Caused
      <4>2. token'[m] = "own" /\ flow[k] # "offline"
        BY <2>1, <2>3, <3>2, <4>1 DEF Caused
      <4>3. QED
        BY <1>2, <1>3, <4>1, <4>2
    <3>3. QED
      BY <3>1, <3>2
  <2>4. QED
    BY <2>2, <2>3 DEF Caused
<1>6. QED
  BY <1>4, <1>5, Executed

\* A PASS has its cause: the run's own request, or the end of a session it shared.
THEOREM PassesHaveCauses == Spec => []PassHasCause
<1>1. Init => Caused
  BY DEF Init, Caused
<1>2. ASSUME IInv, Caused, [Next]_vars PROVE Caused'
  <2>1. CASE UNCHANGED <<flow, token, ended>>
    BY <1>2, <2>1, CauseStays
  <2>2. ASSUME NEW l \in Logins, Redeem(l) PROVE Caused'
    <3>1. token[l] = "none" /\ token \in [Logins -> Tokens]
      BY <1>2, <2>2 DEF Redeem, Exchange, IInv, TypeOK, RunSound
    <3>2. \A k \in Logins : token'[k] = token[k] \/ (k = l /\ token'[k] = "good")
      BY <2>2, <3>1 DEF Redeem
    <3>3. UNCHANGED <<flow, ended>>
      BY <2>2 DEF Redeem
    <3>4. QED
      BY <1>2, <3>1, <3>2, <3>3, CauseStays
  <2>3. ASSUME NEW l \in Logins, EndSession(l) PROVE Caused'
    BY <1>2, <2>3, RequestIsCause
  <2>4. ASSUME NEW l \in Logins, Runs(l), ~Redeem(l), ~EndSession(l)
        PROVE  UNCHANGED <<flow, token, ended>>
    BY <2>4 DEF Runs, InLogin, Begin, Inspect, ReadGroups, Discover, Refresh, TryRefresh,
                Verify, End, See
  <2>5. QED
    BY <1>2, <2>1, <2>2, <2>3, <2>4 DEF Next, Killed, Browser, vars
<1>3. IInv /\ Caused => PassHasCause
  BY DEF IInv, RunSound, Caused, PassHasCause
<1>4. IInv /\ Caused /\ [Next]_vars => Caused'
  BY <1>2
<1>5. QED
  BY <1>1, <1>3, <1>4, Invariance, PTL DEF Spec

\* No flow succeeds with tokens its login did not get.
THEOREM SuccessHasTokens == Spec => []SuccessNeedsTokens
<1>1. IInv => SuccessNeedsTokens
  BY DEF IInv, RunSound, SuccessNeedsTokens
<1>2. QED
  BY <1>1, Invariance, PTL

\* One late callback never holds the shutdown of a login; it needs one more.
THEOREM LateHarmless == Spec => []LateCallbackHarmless
<1>1. IInv => LateCallbackHarmless
  <2> SUFFICES ASSUME IInv, NEW l \in Logins, Held(l)
               PROVE  got[l] >= (IF outcome[l] = "timeout" THEN 2 ELSE 3)
    BY DEF LateCallbackHarmless
  <2>1. PICK v \in Values :
          handling[l][v] > 0 /\ ~Room(l, IF v = "error" THEN errCh[l] ELSE codeCh[l])
    BY DEF Held
  <2> DEFINE h == handling[l]["own"] + handling[l]["other"] + handling[l]["error"]
             s == Len(codeCh[l])
             e == Len(errCh[l])
  <2>2. h \in Nat /\ h >= 1
    <3>1. v \in {"own", "other", "error"}
      BY DEF Values, Codes
    <3>2. handling[l]["own"] > 0 \/ handling[l]["other"] > 0 \/ handling[l]["error"] > 0
      BY <2>1, <3>1
    <3>3. /\ handling[l]["own"] \in Nat /\ handling[l]["other"] \in Nat
          /\ handling[l]["error"] \in Nat
      BY Channels
    <3>4. \A a, b, c \in Nat :
            a > 0 \/ b > 0 \/ c > 0 => a + b + c \in Nat /\ a + b + c >= 1
      OBVIOUS
    <3>5. QED
      BY <3>2, <3>3, <3>4, Zenon
  <2>3. s \in Nat /\ e \in Nat
    BY Channels
  <2>4. s >= 1 \/ e >= 1
    BY <2>1, <2>3 DEF Room
  <2>5. Pending(l) = h + s + e
    BY DEF Pending
  <2>6. outcome[l] # "timeout" => Taken(l) = 1
    BY DEF Held, IInv, LoginSound, Taken
  <2>7. got[l] >= Pending(l) + Taken(l) /\ Taken(l) \in Nat /\ got[l] \in Nat
    BY PendingNat DEF Held, IInv, LoginSound
  <2> HIDE DEF h, s, e
  <2>8. Pending(l) >= 2
    BY <2>2, <2>3, <2>4, <2>5
  <2>9. QED
    BY <2>6, <2>7, <2>8, PendingNat
<1>2. QED
  BY <1>1, Invariance, PTL

-----------------------------------------------------------------------------
\* At most one login listens, and it is the one that holds the port: a callback
\* never reaches the server of a login that has made up its mind and gone.
OneListens ==
  /\ \A k, l \in Logins : pc[k] \in Listening /\ pc[l] \in Listening => k = l
  /\ \A l \in Logins : pc[l] \in Listening <=> port = l

\* The fixed port keeps the logins of two runs apart.
THEOREM LoginsExclude == Spec => []OneListens
<1>1. IInv => OneListens
  BY DEF IInv, LoginSound, OneListens
<1>2. QED
  BY <1>1, Invariance, PTL

-----------------------------------------------------------------------------
\* Once a callback too many holds the shutdown of a login nothing but the end of
\* the program frees it: not the other handlers, the other runs, or the browser.
HeldStays == [][\A l \in Logins : Held(l) => Held(l)' \/ pc'[l] = "exited"]_vars

\* v is being sent to a channel of l that is full, and l takes nothing any more.
Blocked(l, v) ==
  /\ pc[l] = "draining" /\ handling[l][v] > 0
  /\ ~Room(l, IF v = "error" THEN errCh[l] ELSE codeCh[l])

\* A step that leaves the place, the handlers and the channels of a login alone
\* leaves it held.
LEMMA HeldAlone ==
  ASSUME NEW l \in Logins, NEW v \in Values, Blocked(l, v),
         pc'[l] = pc[l], handling'[l][v] > 0,
         codeCh'[l] = codeCh[l], errCh'[l] = errCh[l]
  PROVE  Held(l)'
BY DEF Blocked, Held, Room

\* A run whose own server is being held does nothing but wait, or deliver what
\* the other channel has room for.
LEMMA HeldRuns ==
  ASSUME IInv, NEW l \in Logins, NEW v \in Values, Blocked(l, v), Runs(l)
  PROVE  Held(l)'
<1>1. /\ pc[l] = "draining" /\ handling \in [Logins -> [Values -> Nat]]
      /\ codeCh \in [Logins -> {<<>>} \cup {<<c>> : c \in Codes}]
      /\ errCh \in [Logins -> {<<>>, <<"error">>}]
  BY DEF Blocked, IInv, TypeOK, TypeOKLogin
<1>2. ~Drained(l)
  BY <1>1 DEF Drained, Blocked
<1>3. ~(Redeem(l) \/ Begin(l) \/ Inspect(l) \/ ReadGroups(l) \/ Discover(l) \/ Refresh(l)
        \/ EndSession(l) \/ TryRefresh(l) \/ Verify(l) \/ Listen(l) \/ TakeCode(l) \/ TakeError(l) \/ TimeOut(l) \/ Shutdown(l))
  BY <1>1 DEF Redeem, Exchange, Begin, Inspect, ReadGroups, Discover, Refresh, EndSession,
              TryRefresh, Verify, At, Listen, TakeCode, TakeError, TimeOut, Shutdown
<1>4. PICK w \in Values : Deliver(l, w)
  BY <1>2, <1>3 DEF Runs, InLogin, LoginRuns
<1>5. handling' = [handling EXCEPT ![l][w] = @ - 1] /\ pc' = pc
  BY <1>4 DEF Deliver
<1>6. CASE v = "error"
  <2>1. w # "error" /\ UNCHANGED errCh
    BY <1>4, <1>6 DEF Deliver, Blocked
  <2>2. handling'[l][v] > 0
    BY <1>1, <1>5, <1>6, <2>1 DEF Blocked
  <2>3. QED
    BY <1>5, <1>6, <2>1, <2>2 DEF Blocked, Held, Room
<1>7. CASE v # "error"
  <2>1. w = "error" /\ UNCHANGED codeCh
    BY <1>4, <1>7 DEF Deliver, Blocked
  <2>2. handling'[l][v] > 0
    BY <1>1, <1>5, <1>7, <2>1 DEF Blocked
  <2>3. QED
    BY <1>5, <1>7, <2>1, <2>2 DEF Blocked, Held, Room
<1>8. QED
  BY <1>6, <1>7

\* What a run does to the login of another one: nothing.
LEMMA RunsApart ==
  ASSUME IInv, NEW l \in Logins, NEW k \in Logins, k # l, Runs(k) \/ Killed(k)
  PROVE  /\ pc'[l] = pc[l] /\ handling'[l] = handling[l]
         /\ codeCh'[l] = codeCh[l] /\ errCh'[l] = errCh[l]
         /\ ended'[l] = ended[l] /\ seen'[l] = seen[l] /\ got'[l] = got[l]
<1>1. /\ pc \in [Logins -> Places] /\ handling \in [Logins -> [Values -> Nat]]
      /\ codeCh \in [Logins -> {<<>>} \cup {<<c>> : c \in Codes}]
      /\ errCh \in [Logins -> {<<>>, <<"error">>}]
      /\ ended \in [Logins -> BOOLEAN] /\ seen \in [Logins -> Sights]
  BY DEF IInv, TypeOK, TypeOKLogin
<1>2. CASE InLogin(k)
  <2>1. CASE Listen(k) \/ TakeCode(k) \/ TakeError(k) \/ TimeOut(k) \/ Shutdown(k) \/ Drained(k)
    BY <1>1, <1>2, <2>1 DEF InLogin, Listen, TakeCode, TakeError, TimeOut, Shutdown, Drained,
                            Goto, Forget
  <2>2. ASSUME NEW w \in Values, Deliver(k, w)
        PROVE  /\ pc'[l] = pc[l] /\ handling'[l] = handling[l]
               /\ codeCh'[l] = codeCh[l] /\ errCh'[l] = errCh[l] /\ got'[l] = got[l]
    BY <1>1, <2>2 DEF Deliver
  <2>3. QED
    BY <1>2, <2>1, <2>2 DEF InLogin, LoginRuns
<1>3. CASE Redeem(k) \/ Begin(k)
  BY <1>1, <1>3 DEF Redeem, Exchange, Begin, Goto
<1>4. CASE Inspect(k) \/ ReadGroups(k) \/ Discover(k) \/ Refresh(k) \/ EndSession(k)
           \/ TryRefresh(k) \/ Verify(k)
  BY <1>1, <1>4 DEF Inspect, ReadGroups, Discover, Refresh, EndSession, TryRefresh, Verify,
                    End, See, Goto, login
<1>5. CASE Killed(k)
  BY <1>1, <1>5 DEF Killed, Interrupt, Goto, Forget
<1>6. QED
  BY <1>2, <1>3, <1>4, <1>5 DEF Runs

\* Every step leaves a held login held, or is the interrupt that ends it.
THEOREM HeldForGood == Spec => HeldStays
<1>1. ASSUME IInv, [Next]_vars, NEW l \in Logins, Held(l)
      PROVE  Held(l)' \/ pc'[l] = "exited"
  <2>1. PICK v \in Values : Blocked(l, v)
    BY <1>1 DEF Held, Blocked
  <2>2. /\ handling \in [Logins -> [Values -> Nat]] /\ handling[l][v] > 0
        /\ pc \in [Logins -> Places]
    BY <1>1, <2>1 DEF IInv, TypeOK, TypeOKLogin, Blocked
  <2>3. ASSUME NEW k \in Logins, Runs(k) \/ Killed(k)
        PROVE  Held(l)' \/ pc'[l] = "exited"
    <3>1. CASE k # l
      BY <1>1, <2>1, <2>2, <2>3, <3>1, RunsApart, HeldAlone
    <3>2. CASE k = l /\ Runs(k)
      BY <1>1, <2>1, <3>2, HeldRuns
    <3>3. CASE k = l /\ Killed(k)
      BY <2>2, <3>3 DEF Killed, Interrupt, Goto
    <3>4. QED
      BY <2>3, <3>1, <3>2, <3>3
  <2>4. CASE Browser
    <3>1. PICK w \in Values : Callback(w)
      BY <2>4 DEF Browser
    <3>2. handling' = [handling EXCEPT ![port][w] = @ + 1]
          /\ UNCHANGED <<pc, codeCh, errCh>>
      BY <3>1 DEF Callback
    <3>3. handling'[l][v] > 0
      BY <2>2, <3>2
    <3>4. QED
      BY <2>1, <3>2, <3>3, HeldAlone
  <2>5. CASE UNCHANGED vars
    BY <2>1, <2>2, <2>5, HeldAlone DEF vars, login
  <2>6. QED
    BY <1>1, <2>3, <2>4, <2>5 DEF Next
<1>2. IInv /\ [Next]_vars =>
        [\A l \in Logins : Held(l) => Held(l)' \/ pc'[l] = "exited"]_vars
  BY <1>1
<1>3. QED
  BY <1>2, Invariance, PTL DEF Spec, HeldStays

-----------------------------------------------------------------------------
\* What a run has still before it: the stages of its flow, and the handlers that
\* have not delivered yet.
StagesLeft(place, past, sight) ==
  CASE place = "start" -> 9 [] place = "waiting" -> 8 [] place = "exchange" -> 7
    [] place = "closing" -> 6 [] place = "draining" -> 5 [] place = "returned" -> 4
    [] place = "flow" -> 3 - (IF past THEN 1 ELSE 0) - (IF sight # "none" THEN 1 ELSE 0)
    [] place = "exited" -> 0

Left(l) == StagesLeft(pc[l], ended[l], seen[l])

Undelivered(l) == handling[l]["own"] + handling[l]["other"] + handling[l]["error"]

WorkLeft(l) == Left(l) + Undelivered(l)

\* Every step of a run takes from what it has before it; nothing another run does
\* adds to it, and a callback adds one, to the run that listens.
ProbeAdvances ==
  [][/\ \A l \in Logins : Runs(l) => WorkLeft(l)' < WorkLeft(l)
     /\ \A k, l \in Logins : k # l /\ (Runs(k) \/ Killed(k)) => WorkLeft(l)' = WorkLeft(l)
     /\ \A l \in Logins : Browser =>
          WorkLeft(l)' = WorkLeft(l) + (IF port = l THEN 1 ELSE 0)]_vars

\* The stages are numbered downwards.
LEMMA Stages ==
  ASSUME NEW place, NEW past \in BOOLEAN, NEW sight
  PROVE  /\ place = "start" => StagesLeft(place, past, sight) = 9
         /\ place = "waiting" => StagesLeft(place, past, sight) = 8
         /\ place = "exchange" => StagesLeft(place, past, sight) = 7
         /\ place = "closing" => StagesLeft(place, past, sight) = 6
         /\ place = "draining" => StagesLeft(place, past, sight) = 5
         /\ place = "returned" => StagesLeft(place, past, sight) = 4
         /\ place = "flow" => StagesLeft(place, past, sight) =
              IF past THEN (IF sight = "none" THEN 2 ELSE 1)
              ELSE IF sight = "none" THEN 3 ELSE 2
         /\ place = "exited" => StagesLeft(place, past, sight) = 0
BY DEF StagesLeft

\* What a run has before it is a natural number.
LEMMA WorkNat ==
  ASSUME IInv, NEW l \in Logins
  PROVE  /\ Left(l) \in 0 .. 9
         /\ handling[l]["own"] \in Nat /\ handling[l]["other"] \in Nat
         /\ handling[l]["error"] \in Nat /\ Undelivered(l) \in Nat
         /\ WorkLeft(l) \in Nat
<1>1. handling[l]["own"] \in Nat /\ handling[l]["other"] \in Nat /\ handling[l]["error"] \in Nat
  BY Channels
<1>2. pc[l] \in {"start", "waiting", "exchange", "closing", "draining", "returned",
                 "flow", "exited"} /\ ended[l] \in BOOLEAN
  BY DEF IInv, TypeOK, TypeOKLogin, Places, Listening
<1>3. Left(l) \in 0 .. 9
  BY <1>2, Stages DEF Left
<1>4. Undelivered(l) \in Nat
  BY <1>1 DEF Undelivered
<1>5. QED
  BY <1>1, <1>3, <1>4 DEF WorkLeft

\* A step that moves a run on to a later stage, and no handler,
LEMMA StageWork ==
  ASSUME IInv, IInv', NEW l \in Logins, handling'[l] = handling[l],
         StagesLeft(pc'[l], ended'[l], seen'[l]) < StagesLeft(pc[l], ended[l], seen[l])
  PROVE  WorkLeft(l)' < WorkLeft(l)
<1>1. Undelivered(l)' = Undelivered(l)
  BY DEF Undelivered
<1>2. Left(l) \in Nat /\ Undelivered(l) \in Nat
  BY WorkNat
<1>3. StagesLeft(pc'[l], ended'[l], seen'[l]) \in Nat
  <2>1. pc'[l] \in {"start", "waiting", "exchange", "closing", "draining", "returned",
                    "flow", "exited"} /\ ended'[l] \in BOOLEAN
    BY DEF IInv, TypeOK, TypeOKLogin, Places, Listening
  <2>2. QED
    BY <2>1, Stages
<1>4. QED
  BY <1>1, <1>2, <1>3 DEF WorkLeft, Left

\* and one that only changes the number of handlers with v to send.
LEMMA HandlerWork ==
  ASSUME IInv, NEW l \in Logins, NEW v \in Values, NEW d \in Int,
         handling'[l] = [handling[l] EXCEPT ![v] = @ + d],
         pc'[l] = pc[l], ended'[l] = ended[l], seen'[l] = seen[l]
  PROVE  WorkLeft(l)' = WorkLeft(l) + d
<1>1. handling[l] \in [Values -> Nat] /\ Values = {"own", "other", "error"}
  BY DEF IInv, TypeOK, TypeOKLogin, Values, Codes
<1>2. \A a, b, c, x \in Int :
        /\ (a + x) + b + c = (a + b + c) + x
        /\ a + (b + x) + c = (a + b + c) + x
        /\ a + b + (c + x) = (a + b + c) + x
  OBVIOUS
<1>3. Undelivered(l)' = Undelivered(l) + d
  BY <1>1, <1>2 DEF Undelivered
<1>4. Left(l) \in Nat /\ Undelivered(l) \in Nat
  BY WorkNat
<1>5. Left(l)' = Left(l)
  BY DEF Left
<1>6. QED
  BY <1>3, <1>4, <1>5 DEF WorkLeft

\* Every step of a run is one of the two.
LEMMA RunWorks ==
  ASSUME IInv, IInv', NEW l \in Logins, Runs(l)
  PROVE  WorkLeft(l)' < WorkLeft(l)
<1>1. /\ pc \in [Logins -> Places] /\ handling \in [Logins -> [Values -> Nat]]
      /\ ended \in [Logins -> BOOLEAN] /\ pc'[l] \in Places /\ ended'[l] \in BOOLEAN
      /\ ended[l] \in BOOLEAN /\ seen \in [Logins -> Sights]
  BY DEF IInv, TypeOK, TypeOKLogin
<1>2. CASE Listen(l) \/ TakeCode(l) \/ TakeError(l) \/ TimeOut(l) \/ Shutdown(l) \/ Drained(l)
           \/ Redeem(l) \/ Begin(l)
  <2>1. handling'[l] = handling[l]
    BY <1>2 DEF Listen, TakeCode, TakeError, TimeOut, Shutdown, Drained, Forget,
                Redeem, Exchange, Begin
  <2>2. \/ pc[l] = "start" /\ pc'[l] \in {"waiting", "returned"}
        \/ pc[l] = "waiting" /\ pc'[l] \in {"exchange", "closing"}
        \/ pc[l] = "exchange" /\ pc'[l] = "closing"
        \/ pc[l] = "closing" /\ pc'[l] = "draining"
        \/ pc[l] = "draining" /\ pc'[l] = "returned"
        \/ pc[l] = "returned" /\ pc'[l] \in {"flow", "exited"}
    BY <1>1, <1>2 DEF Listen, TakeCode, TakeError, TimeOut, Shutdown, Drained,
                      Redeem, Exchange, Begin, Goto
  <2>3. StagesLeft(pc'[l], ended'[l], seen'[l]) < StagesLeft(pc[l], ended[l], seen[l])
    BY <1>1, <2>2, Stages
  <2>4. QED
    BY <2>1, <2>3, StageWork
<1>3. CASE Inspect(l) \/ ReadGroups(l) \/ Discover(l) \/ Refresh(l) \/ EndSession(l)
           \/ TryRefresh(l) \/ Verify(l)
  <2>1. handling'[l] = handling[l]
    BY <1>3 DEF Inspect, ReadGroups, Discover, Refresh, EndSession, TryRefresh, Verify,
                End, See, login
  <2>2. /\ pc[l] = "flow"
        /\ \/ pc'[l] = "exited"
           \/ pc'[l] = "flow" /\ ~ended[l] /\ ended'[l] /\ seen'[l] = seen[l]
           \/ pc'[l] = "flow" /\ ended'[l] = ended[l] /\ seen[l] = "none" /\ seen'[l] # "none"
    <3>1. CASE Inspect(l) \/ Discover(l) \/ Refresh(l) \/ Verify(l)
      BY <1>1, <3>1 DEF Inspect, Discover, Refresh, Verify, End, Goto, At
    <3>2. CASE ReadGroups(l)
      BY <1>1, <3>2 DEF ReadGroups, See, At, login
    <3>3. CASE EndSession(l)
      BY <1>1, <3>3 DEF EndSession, End, Goto, At, login
    <3>4. CASE TryRefresh(l)
      <4>1. "none" \notin Replies(l)
        BY DEF Replies, IInv, TypeOK, Tokens
      <4>2. QED
        BY <1>1, <3>4, <4>1 DEF TryRefresh, See, End, Goto, At, login
    <3>5. QED
      BY <1>3, <3>1, <3>2, <3>3, <3>4
  <2>3. StagesLeft(pc'[l], ended'[l], seen'[l]) < StagesLeft(pc[l], ended[l], seen[l])
    BY <1>1, <2>2, Stages
  <2>4. QED
    BY <2>1, <2>3, StageWork
<1>4. ASSUME NEW v \in Values, Deliver(l, v), UNCHANGED <<ended, seen>>
      PROVE  WorkLeft(l)' < WorkLeft(l)
  <2>1. handling'[l] = [handling[l] EXCEPT ![v] = @ + (-1)] /\ pc' = pc
    BY <1>1, <1>4 DEF Deliver
  <2>2. WorkLeft(l)' = WorkLeft(l) + (-1)
    BY <1>4, <2>1, HandlerWork
  <2>3. QED
    BY <2>2, WorkNat
<1>5. QED
  BY <1>2, <1>3, <1>4 DEF Runs, InLogin, LoginRuns

\* What a run has before it shrinks with every step of its own and grows only by
\* callbacks, of which there are MaxCallbacks: a run of either program takes at
\* most 9 steps and one for every callback, whatever the other runs do.
THEOREM ProbeBounded ==
  Spec => /\ \A l \in Logins : WorkLeft(l) = 9
          /\ [](\A l \in Logins : WorkLeft(l) \in Nat)
          /\ ProbeAdvances
<1>1. IInv => \A l \in Logins : WorkLeft(l) \in Nat
  BY WorkNat
<1>2. ASSUME IInv, IInv', [Next]_vars
      PROVE  /\ \A l \in Logins : Runs(l) => WorkLeft(l)' < WorkLeft(l)
             /\ \A k, l \in Logins : k # l /\ (Runs(k) \/ Killed(k)) => WorkLeft(l)' = WorkLeft(l)
             /\ \A l \in Logins : Browser =>
                  WorkLeft(l)' = WorkLeft(l) + (IF port = l THEN 1 ELSE 0)
  <2>1. ASSUME NEW k \in Logins, NEW l \in Logins, k # l, Runs(k) \/ Killed(k)
        PROVE  WorkLeft(l)' = WorkLeft(l)
    BY <1>2, <2>1, RunsApart DEF WorkLeft, Left, Undelivered
  <2>2. ASSUME NEW l \in Logins, Browser
        PROVE  WorkLeft(l)' = WorkLeft(l) + (IF port = l THEN 1 ELSE 0)
    <3>1. PICK v \in Values : Callback(v) /\ UNCHANGED <<ended, seen>>
      BY <2>2 DEF Browser
    <3>2. handling' = [handling EXCEPT ![port][v] = @ + 1] /\ pc' = pc
      BY <3>1 DEF Callback
    <3>3. handling \in [Logins -> [Values -> Nat]]
      BY <1>2 DEF IInv, TypeOK, TypeOKLogin
    <3>4. CASE port = l
      <4>1. handling'[l] = [handling[l] EXCEPT ![v] = @ + 1]
        BY <3>2, <3>3, <3>4
      <4>2. WorkLeft(l)' = WorkLeft(l) + 1
        BY <1>2, <3>1, <3>2, <4>1, HandlerWork
      <4>3. QED
        BY <3>4, <4>2
    <3>5. CASE port # l
      <4>1. handling'[l] = handling[l]
        BY <3>2, <3>3, <3>5
      <4>2. WorkLeft(l)' = WorkLeft(l)
        BY <3>1, <3>2, <4>1 DEF WorkLeft, Left, Undelivered
      <4>3. QED
        BY <1>2, <3>5, <4>2, WorkNat
    <3>6. QED
      BY <3>4, <3>5
  <2>3. QED
    BY <1>2, <2>1, <2>2, RunWorks
<1>3. IInv /\ IInv' /\ [Next]_vars =>
        [/\ \A l \in Logins : Runs(l) => WorkLeft(l)' < WorkLeft(l)
         /\ \A k, l \in Logins : k # l /\ (Runs(k) \/ Killed(k)) => WorkLeft(l)' = WorkLeft(l)
         /\ \A l \in Logins : Browser =>
              WorkLeft(l)' = WorkLeft(l) + (IF port = l THEN 1 ELSE 0)]_vars
  BY <1>2
<1>4. Init => \A l \in Logins : WorkLeft(l) = 9
  <2> SUFFICES ASSUME Init, NEW l \in Logins PROVE WorkLeft(l) = 9
    OBVIOUS
  <2>1. Left(l) = 9
    BY Stages DEF Init, InitLogin, Left
  <2>2. Undelivered(l) = 0
    BY DEF Init, InitLogin, Undelivered, Values, Codes
  <2>3. QED
    BY <2>1, <2>2 DEF WorkLeft
<1>5. QED
  BY <1>1, <1>3, <1>4, Invariance, PTL DEF Spec, ProbeAdvances

-----------------------------------------------------------------------------
\* The guards of the steps of a run.
CanGoOn(l) ==
  \/ pc[l] \in {"start", "waiting", "exchange", "closing", "returned"}
  \/ pc[l] = "draining" /\ \A v \in Values : handling[l][v] = 0
  \/ \E v \in Values :
       handling[l][v] > 0 /\ Room(l, IF v = "error" THEN errCh[l] ELSE codeCh[l])
  \/ At(l, {"groups", "audience", "stability"})
  \/ At(l, {"discovery"}) /\ seen[l] = "none"
  \/ At(l, {"discovery"}) /\ seen[l] # "none"
  \/ At(l, Ending) /\ ~ended[l]
  \/ At(l, Ending) /\ ended[l] /\ seen[l] = "none"
  \/ At(l, Ending) /\ seen[l] # "none"

\* A run that is not over has a step to take, or is held.
OnlyHeldWait == \A l \in Logins : pc[l] # "exited" => CanGoOn(l) \/ Held(l)

\* Nothing keeps a run from its end but the callback too many: whatever login
\* returned there is a flow for it, and a shutdown that waits has a handler to
\* wait for that can still send, unless the buffers are full.
THEOREM OnlyHeldNeverEnds == Spec => []OnlyHeldWait
<1>1. IInv => OnlyHeldWait
  <2> SUFFICES ASSUME IInv, NEW l \in Logins, pc[l] # "exited" PROVE CanGoOn(l) \/ Held(l)
    BY DEF OnlyHeldWait
  <2>1. pc[l] \in Places /\ flow[l] \in Flows /\ handling[l] \in [Values -> Nat]
    BY DEF IInv, TypeOK, TypeOKLogin
  <2>2. CASE pc[l] = "flow"
    BY <2>1, <2>2 DEF Flows, At, Ending, CanGoOn
  <2>3. CASE pc[l] = "draining"
    <3>1. CASE \A v \in Values : handling[l][v] = 0
      BY <2>3, <3>1 DEF CanGoOn
    <3>2. CASE \E v \in Values : handling[l][v] # 0
      <4>1. PICK v \in Values : handling[l][v] > 0
        BY <2>1, <3>2
      <4>2. CASE Room(l, IF v = "error" THEN errCh[l] ELSE codeCh[l])
        BY <4>1, <4>2, Zenon DEF CanGoOn
      <4>3. CASE ~Room(l, IF v = "error" THEN errCh[l] ELSE codeCh[l])
        BY <2>3, <4>1, <4>3, Zenon DEF Held
      <4>4. QED
        BY <4>2, <4>3
    <3>3. QED
      BY <3>1, <3>2
  <2>4. CASE pc[l] \in {"start", "waiting", "exchange", "closing", "returned"}
    BY <2>4 DEF CanGoOn
  <2>5. QED
    BY <2>1, <2>2, <2>3, <2>4 DEF Places, Listening
<1>2. QED
  BY <1>1, Invariance, PTL
=============================================================================
