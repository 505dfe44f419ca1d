----------------------- MODULE FrontendSessionProofs -----------------------
(***************************************************************************)
(* Theorems about FrontendSession for any number of people and calls.      *)
(***************************************************************************)
EXTENDS FrontendSession, TLAPS

Call == [kind : Kinds, step : Steps, token : Credential, tries : 0..2, served : 0..2]
Renewal == [step : {"none", "sent", "back"}, with : Credential, token : Credential]

(* How often the API has run a call, by where the call is: not at all until *)
(* it is accepted, and whatever is renewed and sent again was not accepted. *)
ServedAt(rec) ==
    /\ rec.step \notin {"accepted", "failed"} => rec.served = 0
    /\ rec.served <= 1

(* TypeOK and ServedOnce with what their steps rely on: a renewal that is   *)
(* not under way holds nothing.                                             *)
SessionInv ==
    /\ TypeOK
    /\ renewal.step = "none" => renewal = NoRenewal
    /\ \A c \in Calls : ServedAt(call[c])

(* What a step that is about one call leaves behind: that call, and whether *)
(* a renewal is under way.                                                  *)
CallMoved(c) ==
    /\ \E rec \in Call :
          /\ call' = [call EXCEPT ![c] = rec]
          /\ ServedAt(rec)
          /\ rec.step \in Waiting => renewal'.step # "none"
    /\ renewal' \in Renewal
    /\ renewal'.step = "none" => renewal' = NoRenewal
    /\ renewal.step # "none" => renewal'.step # "none"

LEMMA Types ==
    /\ NoCredential \in Credential
    /\ Idle \in Call /\ Idle.served = 0 /\ Idle.step = "idle"
    /\ NoRenewal \in Renewal
    /\ \A p \in People : Fresh(p) \in Credential
    /\ \A credential \in Credential, p \in People : Spoil(credential, p) \in Credential
<1>1. NoCredential \in Credential
  BY DEF NoCredential, Credential
<1>2. Idle \in Call /\ Idle.served = 0 /\ Idle.step = "idle"
  <2>1. "page" \in Kinds /\ "idle" \in Steps
    BY DEF Kinds, Steps
  <2>2. 0 \in 0..2
    OBVIOUS
  <2> QED
    BY <1>1, <2>1, <2>2 DEF Idle, Call
<1>3. NoRenewal \in Renewal
  BY <1>1 DEF NoRenewal, Renewal
<1>4. \A p \in People : Fresh(p) \in Credential
  BY DEF Fresh, Credential
<1>5. \A credential \in Credential, p \in People : Spoil(credential, p) \in Credential
  BY DEF Spoil, Credential
<1> QED
  BY <1>1, <1>2, <1>3, <1>4, <1>5

(* A step that moves one call and types the rest keeps the invariant.       *)
LEMMA MovesKeep ==
    ASSUME SessionInv, NEW c \in Calls, CallMoved(c),
           stored' \in [token : Credential, refresh : Credential, due : BOOLEAN],
           page' \in People \cup {Nobody, Loading}, gone' \subseteq People
    PROVE  SessionInv'
<1>1. PICK rec \in Call :
          /\ call' = [call EXCEPT ![c] = rec]
          /\ ServedAt(rec)
          /\ rec.step \in Waiting => renewal'.step # "none"
  BY DEF CallMoved
<1>2. call \in [Calls -> Call]
  BY DEF SessionInv, TypeOK, Call
<1>3. call' \in [Calls -> Call]
  BY <1>1, <1>2
<1>4. \A d \in Calls : call'[d] = IF d = c THEN rec ELSE call[d]
  BY <1>1, <1>2
<1>5. \A d \in Calls : call'[d].step \in Waiting => renewal'.step # "none"
  BY <1>1, <1>4 DEF SessionInv, TypeOK, CallMoved
<1>6. \A d \in Calls : ServedAt(call'[d])
  BY <1>1, <1>4 DEF SessionInv
<1> QED
  BY <1>3, <1>5, <1>6 DEF SessionInv, TypeOK, CallMoved, Call, Renewal, ServedAt

(* A call that asks for a renewal, before it is sent or after a 401.        *)
LEMMA AwaitMoves ==
    ASSUME SessionInv, NEW c \in Calls, NEW rec \in Call, rec.served = 0,
           NEW step \in Waiting, AwaitRenewal(c, rec, step)
    PROVE  CallMoved(c)
<1> USE DEF SessionInv, TypeOK, Waiting
<1>1. CASE stored.refresh = NoCredential
  <2> DEFINE moved == [rec EXCEPT !.step = IF step = "before" THEN "send" ELSE "over"]
  <2>1. moved \in Call /\ moved.step \in {"send", "over"} /\ moved.served = 0
    BY DEF Call, Steps, Continuations
  <2>2. call' = [call EXCEPT ![c] = moved] /\ renewal' = renewal
    BY <1>1, Zenon DEF AwaitRenewal
  <2>3. ServedAt(moved) /\ moved.step \notin Waiting
    BY <2>1 DEF ServedAt
  <2>4. renewal' \in Renewal /\ (renewal'.step = "none" => renewal' = NoRenewal)
    BY <2>2 DEF Renewal
  <2> HIDE DEF moved
  <2> QED
    BY <2>1, <2>2, <2>3, <2>4 DEF CallMoved
<1>2. CASE stored.refresh # NoCredential
  <2> DEFINE moved == [rec EXCEPT !.step = step]
  <2>1. moved \in Call /\ moved.step = step /\ moved.served = 0
    BY DEF Call, Steps
  <2>2. call' = [call EXCEPT ![c] = moved]
    BY <1>2, Zenon DEF AwaitRenewal
  <2>3. renewal' = IF renewal # NoRenewal THEN renewal
                   ELSE [NoRenewal EXCEPT !.step = "sent", !.with = stored.refresh]
    BY <1>2, Zenon DEF AwaitRenewal
  <2>4. renewal' \in Renewal /\ renewal'.step # "none"
    BY <2>3, Types DEF Renewal, NoRenewal
  <2>5. ServedAt(moved)
    BY <2>1 DEF ServedAt
  <2> HIDE DEF moved
  <2> QED
    BY <2>1, <2>2, <2>4, <2>5 DEF CallMoved
<1> QED
  BY <1>1, <1>2

(* A new call, sent at once or after a renewal.                             *)
LEMMA RequestMoves ==
    ASSUME SessionInv, NEW c \in Calls, NEW kind \in Kinds, Request(c, kind)
    PROVE  CallMoved(c)
<1> DEFINE rec == [Idle EXCEPT !.kind = kind]
           out == Sent(rec, stored.token, 1)
<1>1. rec \in Call /\ rec.served = 0
  BY Types DEF Call
<1>2. CASE stored.due
  BY <1>1, <1>2, AwaitMoves DEF Request, Waiting
<1>3. CASE ~stored.due
  <2>1. out \in Call /\ out.step = "sent" /\ out.served = 0
    <3> HIDE DEF rec
    <3>1. "sent" \in Steps /\ 1 \in 0..2 /\ stored.token \in Credential
      BY DEF Steps, SessionInv, TypeOK
    <3> QED
      BY <1>1, <3>1 DEF Sent, Call
  <2>2. call' = [call EXCEPT ![c] = out] /\ renewal' = renewal
    BY <1>3 DEF Request
  <2>3. ServedAt(out) /\ out.step \notin Waiting
    BY <2>1 DEF ServedAt, Waiting
  <2>4. renewal' \in Renewal /\ (renewal'.step = "none" => renewal' = NoRenewal)
    BY <2>2 DEF Renewal, SessionInv, TypeOK
  <2> HIDE DEF out
  <2> QED
    BY <2>1, <2>2, <2>3, <2>4 DEF CallMoved
<1> QED
  BY <1>2, <1>3

(* A call that moves while no renewal begins or ends.                       *)
LEMMA QuietMoves ==
    ASSUME SessionInv, NEW c \in Calls, NEW rec \in Call, ServedAt(rec), rec.step \notin Waiting,
           call' = [call EXCEPT ![c] = rec], UNCHANGED renewal
    PROVE  CallMoved(c)
BY DEF CallMoved, SessionInv, TypeOK, Renewal

LEMMA EndsKeep ==
    ASSUME SessionInv, NEW c \in Calls, NEW shown \in People \cup {Nobody}, NEW cleared,
           Ends(c, shown, cleared)
    PROVE  SessionInv'
<1>1. CallMoved(c)
  <2>1. ServedAt(Idle) /\ Idle \in Call /\ Idle.step \notin Waiting
    BY Types DEF ServedAt, Waiting
  <2>2. call' = [call EXCEPT ![c] = Idle] /\ UNCHANGED renewal
    BY DEF Ends
  <2> QED
    BY <2>1, <2>2, QuietMoves
<1>2. stored' \in [token : Credential, refresh : Credential, due : BOOLEAN]
  <2>1. stored' = ClearToken \/ stored' = stored
    BY Zenon DEF Ends
  <2> QED
    <3>1. ClearToken \in [token : Credential, refresh : Credential, due : BOOLEAN]
      BY Types DEF ClearToken, NoSession
    <3> QED
      BY <2>1, <3>1 DEF SessionInv, TypeOK
<1>3. page' \in People \cup {Nobody, Loading}
  <2>1. page' = shown \/ page' = Nobody \/ page' = page
    BY Zenon DEF Ends
  <2> QED
    BY <2>1 DEF SessionInv, TypeOK
<1>4. gone' \subseteq People
  BY DEF Ends, SessionInv, TypeOK
<1> QED
  BY <1>1, <1>2, <1>3, <1>4, MovesKeep

LEMMA BeginKeeps ==
    ASSUME SessionInv, NEW c \in Calls, NEW kind \in Kinds, Begin(c, kind)
    PROVE  SessionInv'
<1>1. CallMoved(c)
  BY RequestMoves DEF Begin
<1> QED
  BY <1>1, MovesKeep DEF Begin, SessionInv, TypeOK

LEMMA AnsweredKeeps ==
    ASSUME SessionInv, NEW c \in Calls, Answered(c)
    PROVE  SessionInv'
<1>1. CASE Expired(c) /\ FirstTry(c)
  <2>1. AwaitRenewal(c, call[c], "again") /\ UNCHANGED <<stored, page, gone>>
    BY <1>1 DEF Answered
  <2>2. call[c] \in Call /\ call[c].served = 0
    BY <1>1 DEF Expired, SessionInv, TypeOK, Call, ServedAt
  <2>3. CallMoved(c)
    BY <2>1, <2>2, AwaitMoves DEF Waiting
  <2> QED
    BY <2>1, <2>3, MovesKeep DEF SessionInv, TypeOK
<1>2. CASE ~(Expired(c) /\ FirstTry(c))
  <2> DEFINE shown == IF call[c].step = "accepted" THEN call[c].token.person ELSE Nobody
  <2>1. shown \in People \cup {Nobody}
    BY DEF SessionInv, TypeOK, Credential
  <2>2. Ends(c, shown, FALSE)
    BY <1>2 DEF Answered
  <2> HIDE DEF shown
  <2> QED
    BY <2>1, <2>2, EndsKeep
<1> QED
  BY <1>1, <1>2

LEMMA ContinueKeeps ==
    ASSUME SessionInv, NEW c \in Calls, Continue(c)
    PROVE  SessionInv'
<1>1. CASE Ends(c, Nobody, TRUE)
  BY <1>1, EndsKeep
<1>2. CASE /\ call[c].step \in {"send", "retry"}
           /\ call' = [call EXCEPT ![c] = Sent(@, stored.token, IF @.step = "send" THEN 1 ELSE 2)]
           /\ UNCHANGED <<stored, page, renewal, gone>>
  <2> DEFINE try == IF call[c].step = "send" THEN 1 ELSE 2
             out == Sent(call[c], stored.token, try)
  <2>1. call[c] \in Call /\ call[c].served = 0
    BY <1>2 DEF SessionInv, TypeOK, Call, ServedAt
  <2>2. out \in Call /\ out.step = "sent" /\ out.served = 0
    <3>1. "sent" \in Steps /\ try \in 0..2 /\ stored.token \in Credential
      BY DEF Steps, SessionInv, TypeOK
    <3> HIDE DEF try
    <3> QED
      BY <2>1, <3>1 DEF Sent, Call
  <2>3. call' = [call EXCEPT ![c] = out]
    BY <1>2 DEF SessionInv, TypeOK
  <2>4. ServedAt(out) /\ out.step \notin Waiting
    BY <2>2 DEF ServedAt, Waiting
  <2> HIDE DEF out
  <2>5. CallMoved(c)
    BY <1>2, <2>2, <2>3, <2>4, QuietMoves
  <2> QED
    BY <1>2, <2>5, MovesKeep DEF SessionInv, TypeOK
<1> QED
  BY <1>1, <1>2, Zenon DEF Continue

LEMMA SignInKeeps ==
    ASSUME SessionInv, NEW p \in People, NEW c \in Calls, SignIn(p, c)
    PROVE  SessionInv'
<1> DEFINE rec == [Idle EXCEPT !.kind = "me"]
           out == Sent(rec, Fresh(p), 1)
<1>1. out \in Call /\ out.step = "sent" /\ out.served = 0
  <2>1. "me" \in Kinds /\ "sent" \in Steps /\ 1 \in 0..2 /\ Fresh(p) \in Credential
    BY Types DEF Kinds, Steps
  <2>2. rec \in Call /\ rec.served = 0
    BY <2>1, Types DEF Call
  <2> HIDE DEF rec
  <2> QED
    BY <2>1, <2>2 DEF Sent, Call
<1>2. call' = [call EXCEPT ![c] = out] /\ UNCHANGED renewal
  BY DEF SignIn
<1>3. ServedAt(out) /\ out.step \notin Waiting
  BY <1>1 DEF ServedAt, Waiting
<1> HIDE DEF out
<1>4. CallMoved(c)
  BY <1>1, <1>2, <1>3, QuietMoves
<1> QED
  BY <1>4, Types, MovesKeep DEF SignIn, SessionInv, TypeOK

LEMMA LoadKeeps ==
    ASSUME SessionInv, NEW c \in Calls, Load(c)
    PROVE  SessionInv'
<1>1. CASE stored.token = NoCredential
  <2>1. page' = Nobody /\ UNCHANGED <<stored, call, renewal, gone>>
    BY <1>1 DEF Load
  <2> QED
    BY <2>1 DEF SessionInv, TypeOK, ServedAt
<1>2. CASE stored.token # NoCredential
  <2>1. CallMoved(c)
    BY <1>2, RequestMoves DEF Load, Kinds
  <2> QED
    BY <1>2, <2>1, MovesKeep DEF Load, SessionInv, TypeOK
<1> QED
  BY <1>1, <1>2

(* The API: a call is accepted out of "sent", where nothing has been run.   *)
LEMMA ServeKeeps ==
    ASSUME SessionInv, NEW c \in Calls, Serve(c)
    PROVE  SessionInv'
<1>1. call[c] \in Call
  BY DEF SessionInv, TypeOK, Call
<1>2. CASE Accept(c)
  <2> DEFINE rec == [call[c] EXCEPT !.step = "accepted", !.served = 1]
  <2>1. call[c].step = "sent" /\ call[c].served = 0
    BY <1>2 DEF Accept, SessionInv, ServedAt
  <2>2. call' = [call EXCEPT ![c] = rec]
    BY <1>2, <2>1, <1>1 DEF Accept, SessionInv, TypeOK, Call
  <2>3. rec \in Call /\ rec.step = "accepted" /\ rec.served = 1
    <3>1. "accepted" \in Steps /\ 1 \in 0..2
      BY DEF Steps
    <3> QED
      BY <1>1, <3>1 DEF Call
  <2>4. ServedAt(rec) /\ rec.step \notin Waiting
    BY <2>3 DEF ServedAt, Waiting
  <2> HIDE DEF rec
  <2>5. CASE UNCHANGED <<stored, renewal>>
    BY <1>2, <2>2, <2>3, <2>4, <2>5, QuietMoves, MovesKeep DEF Accept, SessionInv, TypeOK
  <2>6. CASE Revoke(call[c].token.person)
    <3> DEFINE p == call[c].token.person
    <3>1. p \in People \cup {Nobody}
      BY <1>1 DEF Call, Credential
    <3>2. \A credential \in Credential : Spoil(credential, p) \in Credential
      BY <3>1 DEF Spoil, Credential
    <3>3. /\ stored' = [stored EXCEPT !.refresh = Spoil(@, p)]
          /\ renewal' = [renewal EXCEPT !.with = Spoil(@, p)]
      BY <2>6 DEF Revoke
    <3>4. Spoil(NoCredential, p) = NoCredential
      BY DEF Spoil, NoCredential
    <3> HIDE DEF p
    <3>5. stored' \in [token : Credential, refresh : Credential, due : BOOLEAN]
      BY <3>2, <3>3 DEF SessionInv, TypeOK
    <3>6. /\ renewal' \in Renewal
          /\ renewal'.step = renewal.step
          /\ renewal'.step = "none" => renewal' = NoRenewal
      BY <3>2, <3>3, <3>4, Types DEF SessionInv, TypeOK, Renewal, NoRenewal
    <3>7. CallMoved(c)
      BY <2>2, <2>3, <2>4, <3>6 DEF CallMoved
    <3> QED
      BY <1>2, <3>5, <3>7, MovesKeep DEF Accept, SessionInv, TypeOK
  <2> QED
    BY <1>2, <2>5, <2>6, Zenon DEF Accept
<1>3. ASSUME NEW step \in {"denied", "failed"},
             call' = [call EXCEPT ![c].step = step, ![c].token = NoCredential],
             step = "denied" => call[c].step = "sent",
             UNCHANGED <<stored, page, renewal, gone>>
      PROVE  SessionInv'
  <2> DEFINE rec == [call[c] EXCEPT !.step = step, !.token = NoCredential]
  <2>1. call' = [call EXCEPT ![c] = rec]
    BY <1>3, <1>1 DEF SessionInv, TypeOK, Call
  <2>2. rec \in Call /\ rec.step = step /\ rec.served = call[c].served
    <3>1. step \in Steps
      BY DEF Steps
    <3> QED
      BY <1>1, <3>1, Types DEF Call
  <2>3. ServedAt(rec) /\ rec.step \notin Waiting
    BY <1>3, <2>2 DEF ServedAt, Waiting, SessionInv
  <2> HIDE DEF rec
  <2> QED
    BY <1>3, <2>1, <2>2, <2>3, QuietMoves, MovesKeep DEF SessionInv, TypeOK
<1>4. CASE Deny(c)
  BY <1>3, <1>4 DEF Deny
<1>5. CASE Fail(c)
  BY <1>3, <1>5 DEF Fail
<1> QED
  BY <1>2, <1>4, <1>5 DEF Serve

(* The end of a renewal: whoever waited for it goes on.                     *)
LEMMA RenewedKeeps ==
    ASSUME SessionInv, Renewed
    PROVE  SessionInv'
<1>1. renewal' = NoRenewal /\ UNCHANGED <<page, gone>>
  BY DEF Renewed
<1>2. stored' \in [token : Credential, refresh : Credential, due : BOOLEAN]
  <2>1. stored' = [stored EXCEPT !.token = renewal.token, !.due = FALSE] \/ stored' = stored
    BY Zenon DEF Renewed
  <2> QED
    BY <2>1 DEF SessionInv, TypeOK
<1>3. PICK renewed \in BOOLEAN : call' = Resume(renewed)
  BY DEF Renewed
<1>4. \A c \in Calls :
        /\ call'[c] \in Call
        /\ call'[c].step \notin Waiting
        /\ ServedAt(call'[c])
  <2> SUFFICES ASSUME NEW c \in Calls
               PROVE  /\ call'[c] \in Call
                      /\ call'[c].step \notin Waiting
                      /\ ServedAt(call'[c])
    OBVIOUS
  <2>1. call[c] \in Call /\ ServedAt(call[c])
    BY DEF SessionInv, TypeOK, Call
  <2>2. CASE call[c].step \in Waiting
    <3>1. PICK step \in Continuations : call'[c] = [call[c] EXCEPT !.step = step]
      BY <1>3, <2>2 DEF Resume, Waiting, Continuations
    <3>2. step \in Steps /\ step \notin Waiting /\ call[c].served = 0
      BY <2>1, <2>2 DEF Steps, Continuations, Waiting, ServedAt
    <3>3. call'[c] \in Call /\ call'[c].step = step /\ call'[c].served = 0
      BY <2>1, <3>1, <3>2 DEF Call
    <3> QED
      BY <3>2, <3>3 DEF ServedAt
  <2>3. CASE call[c].step \notin Waiting
    BY <1>3, <2>1, <2>3 DEF Resume, Waiting
  <2> QED
    BY <2>2, <2>3
<1>5. call' \in [Calls -> Call]
  BY <1>3, <1>4 DEF Resume
<1> QED
  BY <1>1, <1>2, <1>4, <1>5, Types DEF SessionInv, TypeOK, Call, Renewal, ServedAt

(* The hour of a token: credentials lose their validity and nothing else.   *)
LEMMA LapseKeeps ==
    ASSUME SessionInv, NEW p \in People, Lapse(p)
    PROVE  SessionInv'
<1>1. /\ Spoil(NoCredential, p) = NoCredential
      /\ \A credential \in Credential : Spoil(credential, p) \in Credential
  BY SessionAssumption, Types DEF Spoil, NoCredential
<1>2. stored' \in [token : Credential, refresh : Credential, due : BOOLEAN]
  BY <1>1 DEF Lapse, SessionInv, TypeOK
<1>3. \A c \in Calls :
        /\ call'[c] \in Call
        /\ call'[c].step = call[c].step /\ call'[c].served = call[c].served
  <2> SUFFICES ASSUME NEW c \in Calls
               PROVE  /\ call'[c] \in Call
                      /\ call'[c].step = call[c].step /\ call'[c].served = call[c].served
    OBVIOUS
  <2>1. call[c] \in Call /\ call'[c] = [call[c] EXCEPT !.token = Spoil(@, p)]
    BY DEF Lapse, SessionInv, TypeOK, Call
  <2> QED
    BY <1>1, <2>1 DEF Call
<1>4. call' \in [Calls -> Call]
  BY <1>3 DEF Lapse
<1>5. /\ renewal' \in Renewal
      /\ renewal'.step = renewal.step
      /\ renewal'.step = "none" => renewal' = NoRenewal
  BY <1>1 DEF Lapse, SessionInv, TypeOK, Renewal, NoRenewal
<1>6. \A c \in Calls : ServedAt(call'[c])
  BY <1>3 DEF ServedAt, SessionInv
<1> QED
  BY <1>2, <1>3, <1>4, <1>5, <1>6 DEF Lapse, SessionInv, TypeOK, Call, Renewal, ServedAt

LEMMA DeactivateKeeps ==
    ASSUME SessionInv, NEW p \in People, Deactivate(p)
    PROVE  SessionInv'
<1>1. /\ Spoil(NoCredential, p) = NoCredential
      /\ \A credential \in Credential : Spoil(credential, p) \in Credential
  BY SessionAssumption, Types DEF Spoil, NoCredential
<1>2. stored' \in [token : Credential, refresh : Credential, due : BOOLEAN]
  BY <1>1 DEF Deactivate, Revoke, SessionInv, TypeOK
<1>3. /\ renewal' \in Renewal
      /\ renewal'.step = renewal.step
      /\ renewal'.step = "none" => renewal' = NoRenewal
  BY <1>1 DEF Deactivate, Revoke, SessionInv, TypeOK, Renewal, NoRenewal
<1> QED
  BY <1>2, <1>3 DEF Deactivate, SessionInv, TypeOK, Renewal, ServedAt

(* Every step keeps the types and runs no call twice.                       *)
LEMMA SessionKept == Spec => []SessionInv
<1>1. Init => SessionInv
  <2> SUFFICES ASSUME Init PROVE SessionInv
    OBVIOUS
  <2>1. NoSession \in [token : Credential, refresh : Credential, due : BOOLEAN]
    BY Types DEF NoSession
  <2>2. \A c \in Calls : call[c] = Idle
    BY DEF Init
  <2> QED
    BY <2>1, <2>2, Types DEF Init, SessionInv, TypeOK, Call, Renewal, ServedAt, Waiting
<1>2. SessionInv /\ [Next]_vars => SessionInv'
  <2> SUFFICES ASSUME SessionInv, [Next]_vars PROVE SessionInv'
    OBVIOUS
  <2>1. ASSUME NEW c \in Calls, NEW kind \in {"page", "upload", "logout"}, Begin(c, kind)
        PROVE  SessionInv'
    BY <2>1, BeginKeeps DEF Kinds
  <2>2. CASE \E c \in Calls : Answered(c) \/ Continue(c) \/ Serve(c) \/ Load(c)
    BY <2>2, AnsweredKeeps, ContinueKeeps, ServeKeeps, LoadKeeps
  <2>3. CASE \E p \in People : (\E c \in Calls : SignIn(p, c)) \/ Lapse(p) \/ Deactivate(p)
    BY <2>3, SignInKeeps, LapseKeeps, DeactivateKeeps
  <2>4. CASE Reload
    <3>1. call' = [c \in Calls |-> Idle] /\ renewal' = NoRenewal
      BY <2>4 DEF Reload
    <3>2. page' = Loading /\ UNCHANGED <<stored, gone>>
      BY <2>4 DEF Reload
    <3> QED
      BY <3>1, <3>2, Types DEF SessionInv, TypeOK, Call, Renewal, ServedAt, Waiting
  <2>5. CASE Renewed
    BY <2>5, RenewedKeeps
  <2>6. CASE Due
    BY <2>6 DEF Due, SessionInv, TypeOK, ServedAt
  <2>7. CASE Directory
    <3>1. renewal'.step = "back" /\ renewal' \in Renewal
      <4>1. Fresh(renewal.with.person) \in Credential
        BY DEF SessionInv, TypeOK, Credential, Fresh
      <4>2. \/ renewal' = [renewal EXCEPT !.step = "back", !.token = Fresh(renewal.with.person)]
            \/ renewal' = [renewal EXCEPT !.step = "back"]
        BY <2>7 DEF Directory
      <4> QED
        BY <4>1, <4>2 DEF SessionInv, TypeOK, Renewal
    <3> QED
      BY <2>7, <3>1 DEF Directory, SessionInv, TypeOK, Renewal, ServedAt
  <2>8. CASE UNCHANGED vars
    BY <2>8 DEF vars, SessionInv, TypeOK, ServedAt
  <2> QED
    BY <2>1, <2>2, <2>3, <2>4, <2>5, <2>6, <2>7, <2>8 DEF Next
<1> QED
  BY <1>1, <1>2, PTL DEF Spec

----------------------------------------------------------------------------
(* Who has left *)

(* The tab holds no refresh token that would be granted of who has left.    *)
LeaveInv == \A p \in gone : stored.refresh # Fresh(p)

(* What a step does to a renewal: nothing, its end, an answer, its being     *)
(* spoiled, or its beginning with the refresh token that is stored.         *)
RenewalMoves ==
    \/ renewal'.step # "sent"
    \/ renewal'.step = renewal.step /\ (renewal'.with = renewal.with \/ ~renewal'.with.good)
    \/ renewal'.with = stored.refresh

(* What it does to the refresh token and to those who have left.            *)
LeaversMove ==
    \/ UNCHANGED gone /\ (stored'.refresh = stored.refresh \/ ~stored'.refresh.good)
    \/ ~stored'.refresh.good
    \/ \E p \in People : stored'.refresh = Fresh(p) /\ gone' = gone \ {p}

(* A call that asks for a renewal begins one with the stored refresh token *)
(* or joins the one there is.                                              *)
LEMMA AwaitLeaves ==
    ASSUME NEW c, NEW rec, NEW step, AwaitRenewal(c, rec, step)
    PROVE  RenewalMoves
<1>1. CASE stored.refresh = NoCredential
  BY <1>1, Zenon DEF AwaitRenewal, RenewalMoves
<1>2. CASE stored.refresh # NoCredential
  <2>1. renewal' = IF renewal # NoRenewal THEN renewal
                   ELSE [NoRenewal EXCEPT !.step = "sent", !.with = stored.refresh]
    BY <1>2, Zenon DEF AwaitRenewal
  <2> QED
    BY <2>1 DEF RenewalMoves, NoRenewal
<1> QED
  BY <1>1, <1>2

(* So does a new call.                                                     *)
LEMMA RequestLeaves ==
    ASSUME NEW c, NEW kind, Request(c, kind)
    PROVE  RenewalMoves
BY AwaitLeaves DEF Request, RenewalMoves

(* A call that ends leaves the refresh token and the people who left as    *)
(* they are, or clears the session.                                        *)
LEMMA EndsLeaves ==
    ASSUME NEW c, NEW shown, NEW cleared, Ends(c, shown, cleared)
    PROVE  RenewalMoves /\ LeaversMove
<1>1. RenewalMoves
  BY DEF Ends, RenewalMoves
<1>2. ~ClearToken.refresh.good
  BY DEF ClearToken, NoSession, NoCredential
<1>3. stored' = ClearToken \/ (stored' = stored /\ gone' = gone)
  BY Zenon DEF Ends
<1> QED
  BY <1>1, <1>2, <1>3 DEF LeaversMove

(* What is revoked is granted no more, in the storage and on its way.      *)
LEMMA RevokeLeaves ==
    ASSUME SessionInv, NEW p, Revoke(p)
    PROVE  /\ RenewalMoves
           /\ stored'.refresh = stored.refresh \/ ~stored'.refresh.good
           /\ p = stored.refresh.person => ~stored'.refresh.good
<1>1. /\ stored'.refresh = Spoil(stored.refresh, p)
      /\ renewal'.step = renewal.step /\ renewal'.with = Spoil(renewal.with, p)
  BY DEF Revoke, SessionInv, TypeOK
<1>2. \A credential \in Credential :
        /\ Spoil(credential, p) = credential \/ ~Spoil(credential, p).good
        /\ p = credential.person => ~Spoil(credential, p).good
  BY DEF Spoil, Credential
<1>3. stored.refresh \in Credential /\ renewal.with \in Credential
  BY DEF SessionInv, TypeOK
<1> QED
  BY <1>1, <1>2, <1>3 DEF RenewalMoves

(* No step gives the tab a refresh token of who has left, but the sign-in  *)
(* that brings them back.                                                  *)
LEMMA StepLeaves ==
    ASSUME SessionInv, LeaveInv, Next \/ UNCHANGED vars
    PROVE  RenewalMoves /\ LeaveInv'
<1> DEFINE Fine == RenewalMoves /\ LeaversMove
           Still == UNCHANGED gone /\ stored'.refresh = stored.refresh
<1>0. Still => LeaversMove
  BY DEF LeaversMove
<1>1. ASSUME NEW c \in Calls, NEW kind, Begin(c, kind) PROVE Fine
  BY <1>0, <1>1, RequestLeaves DEF Begin
<1>2. ASSUME NEW c \in Calls, Answered(c) PROVE Fine
  <2>1. CASE Expired(c) /\ FirstTry(c)
    BY <1>0, <1>2, <2>1, AwaitLeaves DEF Answered
  <2>2. CASE ~(Expired(c) /\ FirstTry(c))
    <3> DEFINE shown == IF call[c].step = "accepted" THEN call[c].token.person ELSE Nobody
    <3>1. Ends(c, shown, FALSE)
      BY <1>2, <2>2 DEF Answered
    <3> HIDE DEF shown
    <3> QED
      BY <3>1, EndsLeaves
  <2> QED
    BY <2>1, <2>2
<1>3. ASSUME NEW c \in Calls, Continue(c) PROVE Fine
  <2>1. UNCHANGED <<stored, page, renewal, gone>> \/ Ends(c, Nobody, TRUE)
    BY <1>3, Zenon DEF Continue
  <2> QED
    BY <1>0, <2>1, EndsLeaves DEF RenewalMoves
<1>4. ASSUME NEW c \in Calls, Serve(c) PROVE Fine
  <2>1. CASE UNCHANGED <<stored, renewal, gone>>
    BY <1>0, <2>1 DEF RenewalMoves
  <2>2. CASE UNCHANGED gone /\ Revoke(call[c].token.person)
    BY <2>2, RevokeLeaves DEF LeaversMove
  <2> QED
    BY <1>4, <2>1, <2>2, Zenon DEF Serve, Accept, Deny, Fail
<1>5. ASSUME NEW c \in Calls, Load(c) PROVE Fine
  <2>1. UNCHANGED renewal \/ Request(c, "me")
    BY <1>5, Zenon DEF Load
  <2> QED
    BY <1>0, <1>5, <2>1, RequestLeaves DEF Load, RenewalMoves
<1>6. ASSUME NEW p \in People, NEW c \in Calls, SignIn(p, c) PROVE Fine
  BY <1>6 DEF SignIn, RenewalMoves, LeaversMove
<1>7. ASSUME NEW p \in People, Lapse(p) PROVE Fine
  <2>1. stored'.refresh = stored.refresh /\ renewal'.step = renewal.step
        /\ renewal'.with = renewal.with /\ UNCHANGED gone
    BY <1>7 DEF Lapse, SessionInv, TypeOK
  <2> QED
    BY <1>0, <2>1 DEF RenewalMoves
<1>8. ASSUME Reload \/ Renewed \/ Due \/ Directory \/ UNCHANGED vars PROVE Fine
  <2>1. UNCHANGED gone
    BY <1>8, Zenon DEF Reload, Renewed, Due, Directory, vars
  <2>2. stored'.refresh = stored.refresh
    <3>1. \/ stored' = stored
          \/ stored' = [stored EXCEPT !.token = renewal.token, !.due = FALSE]
          \/ stored' = [stored EXCEPT !.due = TRUE]
      BY <1>8, Zenon DEF Reload, Renewed, Due, Directory, vars
    <3> QED
      BY <3>1 DEF SessionInv, TypeOK
  <2>3. RenewalMoves
    <3>1. \/ renewal' = renewal
          \/ renewal' = NoRenewal
          \/ renewal' = [renewal EXCEPT !.step = "back", !.token = Fresh(renewal.with.person)]
          \/ renewal' = [renewal EXCEPT !.step = "back"]
      BY <1>8, Zenon DEF Reload, Renewed, Due, Directory, vars
    <3> QED
      <4>1. renewal \in Renewal /\ NoRenewal.step = "none"
        BY DEF SessionInv, TypeOK, Renewal, NoRenewal
      <4>2. renewal' = renewal \/ renewal'.step # "sent"
        BY <3>1, <4>1 DEF Renewal
      <4> QED
        BY <4>2 DEF RenewalMoves
  <2> QED
    BY <1>0, <2>1, <2>2, <2>3
<1> HIDE DEF Fine
<1>9. CASE Fine
  <2>1. ASSUME NEW p \in gone' PROVE stored'.refresh # Fresh(p)
    <3>1. CASE UNCHANGED gone /\ stored'.refresh = stored.refresh
      BY <3>1 DEF LeaveInv
    <3>2. CASE ~stored'.refresh.good
      BY <3>2 DEF Fresh
    <3>3. ASSUME NEW q \in People, stored'.refresh = Fresh(q), gone' = gone \ {q}
          PROVE  stored'.refresh # Fresh(p)
      BY <3>3 DEF Fresh
    <3> QED
      BY <1>9, <3>1, <3>2, <3>3 DEF Fine, LeaversMove
  <2> QED
    BY <1>9, <2>1 DEF Fine, LeaveInv
<1>10. ASSUME NEW p \in People, Deactivate(p) PROVE RenewalMoves /\ LeaveInv'
  <2>1. Revoke(p) /\ gone' = gone \cup {p}
    BY <1>10 DEF Deactivate
  <2>2. /\ RenewalMoves
        /\ stored'.refresh = stored.refresh \/ ~stored'.refresh.good
        /\ p = stored.refresh.person => ~stored'.refresh.good
    BY <2>1, RevokeLeaves
  <2>3. ASSUME NEW q \in gone' PROVE stored'.refresh # Fresh(q)
    <3>1. ~Fresh(q).good => FALSE
      BY DEF Fresh
    <3>2. stored'.refresh = Fresh(p) => stored.refresh.person # p
      BY <2>2 DEF Fresh
    <3>3. stored.refresh = Fresh(q) => stored.refresh.person = q
      BY DEF Fresh
    <3> QED
      BY <2>1, <2>2, <3>1, <3>2, <3>3 DEF LeaveInv
  <2> QED
    BY <2>2, <2>3 DEF LeaveInv
<1>11. CASE \E c \in Calls : Answered(c) \/ Continue(c) \/ Serve(c) \/ Load(c)
  BY <1>2, <1>3, <1>4, <1>5, <1>9, <1>11 DEF Fine
<1>12. CASE \E p \in People : (\E c \in Calls : SignIn(p, c)) \/ Lapse(p) \/ Deactivate(p)
  BY <1>6, <1>7, <1>9, <1>10, <1>12 DEF Fine
<1>13. CASE \E c \in Calls : \E kind \in {"page", "upload", "logout"} : Begin(c, kind)
  BY <1>1, <1>9, <1>13 DEF Fine
<1>14. CASE Reload \/ Renewed \/ Due \/ Directory \/ UNCHANGED vars
  BY <1>8, <1>9, <1>14 DEF Fine
<1> QED
  BY <1>11, <1>12, <1>13, <1>14, Zenon DEF Next

----------------------------------------------------------------------------
(* The theorems *)

(* The types are preserved; a call that waits has a renewal to wait for.    *)
THEOREM TypeCorrect == Spec => []TypeOK
BY SessionKept, PTL DEF SessionInv

(* Whatever is refused, lost, renewed and sent again: the API runs a call   *)
(* once.                                                                    *)
THEOREM ServedOnceAtMost == Spec => []ServedOnce
<1>1. SessionInv => ServedOnce
  BY DEF SessionInv, ServedAt, ServedOnce
<1> QED
  BY <1>1, SessionKept, PTL

(* Whoever signs out or is deactivated, and whatever calls, renewals and   *)
(* sign-ins of others are under way: no renewal begins that the directory  *)
(* would grant to who has left.                                            *)
THEOREM WhoLeftDoesNotRenew == Spec => LeaversDoNotRenew
<1> DEFINE A == \A p \in gone :
                  renewal'.step = "sent" /\ renewal'.with = Fresh(p) =>
                      renewal.step = "sent" /\ renewal.with = Fresh(p)
<1>1. Init => LeaveInv
  BY DEF Init, LeaveInv
<1>2. SessionInv /\ LeaveInv /\ [Next]_vars => LeaveInv'
  BY StepLeaves
<1>3. SessionInv /\ LeaveInv /\ [Next]_vars => [A]_vars
  <2> SUFFICES ASSUME SessionInv, LeaveInv, [Next]_vars, NEW p \in gone,
                      renewal'.step = "sent", renewal'.with = Fresh(p)
               PROVE  renewal.step = "sent" /\ renewal.with = Fresh(p)
    OBVIOUS
  <2>1. RenewalMoves
    BY StepLeaves
  <2>2. Fresh(p).good
    BY DEF Fresh
  <2>3. stored.refresh # Fresh(p)
    BY DEF LeaveInv
  <2> QED
    BY <2>1, <2>2, <2>3 DEF RenewalMoves
<1> QED
  BY <1>1, <1>2, <1>3, SessionKept, PTL DEF Spec, LeaversDoNotRenew
=============================================================================
