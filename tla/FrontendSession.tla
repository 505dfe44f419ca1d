-------------------------- MODULE FrontendSession --------------------------
(***************************************************************************)
(* The session of one browser tab: the tokens in its storage, the requests *)
(* of its pages with their silent renewal and single retry, sign-in and    *)
(* sign-out, against the API and the directory that issues the tokens.     *)
(*                                                                         *)
(* JavaScript runs what follows an await to the next await before it takes *)
(* the next event; the continuations of a renewal are steps of their own   *)
(* here ("send", "retry", "over"), and no event is taken while one is due. *)
(***************************************************************************)
EXTENDS Integers

CONSTANTS
    People,  \* who sign in at this tab, one after the other
    Nobody,
    Loading, \* what the pages show until load() has ended
    Calls,   \* requests that the tab can have under way at once
    Faults   \* what may fail: the network, the signing keys' address, the directory

ASSUME SessionAssumption ==
    /\ Nobody # Loading /\ Nobody \notin People /\ Loading \notin People
    /\ Faults \subseteq {"network", "keys", "directory"}

VARIABLES
    stored,  \* the storage of the tab: token, refresh token, and whether the token is about to end
    page,    \* whom the pages show: me, loading
    call,    \* the requests
    renewal, \* inFlightRefresh, with the request to the directory
    gone     \* who signed out or was deactivated and has not signed in since: no step reads it

vars == <<stored, page, call, renewal, gone>>

(* An ID token or a refresh token: whose, and would it be accepted.         *)
Credential == [person : People \cup {Nobody}, good : BOOLEAN]
NoCredential == [person |-> Nobody, good |-> FALSE]
Fresh(p) == [person |-> p, good |-> TRUE]

NoSession == [token |-> NoCredential, refresh |-> NoCredential, due |-> FALSE]

(* A page's request, an upload (its body is a form), load() and signOut().  *)
Kinds == {"page", "upload", "me", "logout"}
Waiting == {"before", "again"}
Continuations == {"send", "retry", "over"}
Steps == {"idle", "sent", "accepted", "denied", "failed"} \cup Waiting \cup Continuations

Idle == [kind |-> "page", step |-> "idle", token |-> NoCredential, tries |-> 0, served |-> 0]
NoRenewal == [step |-> "none", with |-> NoCredential, token |-> NoCredential]

TypeOK ==
    /\ stored \in [token : Credential, refresh : Credential, due : BOOLEAN]
    /\ page \in People \cup {Nobody, Loading}
    /\ call \in [Calls -> [kind : Kinds, step : Steps, token : Credential, tries : 0..2,
                           served : 0..2]]
    /\ renewal \in [step : {"none", "sent", "back"}, with : Credential, token : Credential]
    /\ gone \subseteq People
    /\ \A c \in Calls : call[c].step \in Waiting => renewal.step # "none"

Init ==
    /\ stored = NoSession
    /\ page = Loading
    /\ call = [c \in Calls |-> Idle]
    /\ renewal = NoRenewal
    /\ gone = {}

Settled == \A c \in Calls : call[c].step \notin Continuations

----------------------------------------------------------------------------
(* The client (api.ts)                                                      *)

(* rawRequest: the call goes out with the token of this moment.             *)
Sent(rec, token, try) == [rec EXCEPT !.step = "sent", !.token = token, !.tries = try]

(* refreshSession: without a refresh token it gives up, otherwise it joins  *)
(* the renewal that is under way or begins one.                             *)
AwaitRenewal(c, rec, step) ==
    IF stored.refresh = NoCredential
    THEN /\ call' = [call EXCEPT ![c] = [rec EXCEPT !.step = IF step = "before" THEN "send"
                                                                               ELSE "over"]]
         /\ UNCHANGED renewal
    ELSE /\ call' = [call EXCEPT ![c] = [rec EXCEPT !.step = step]]
         /\ renewal' = IF renewal # NoRenewal THEN renewal
                       ELSE [NoRenewal EXCEPT !.step = "sent", !.with = stored.refresh]

(* request: a token about to end is renewed before the call.                *)
Request(c, kind) ==
    LET rec == [Idle EXCEPT !.kind = kind]
    IN  IF stored.due
        THEN AwaitRenewal(c, rec, "before")
        ELSE call' = [call EXCEPT ![c] = Sent(rec, stored.token, 1)] /\ UNCHANGED renewal

Begin(c, kind) ==
    /\ Settled
    /\ page \in People
    /\ call[c].step = "idle"
    /\ Request(c, kind)
    /\ UNCHANGED <<stored, page, gone>>

(* Variant: only the calls that were refused are waiting for the renewal.   *)
ResumeRefused(renewed) ==
    [c \in Calls |->
        IF call[c].step = "again"
        THEN [call[c] EXCEPT !.step = IF renewed THEN "retry" ELSE "over"]
        ELSE call[c]]

(* Whoever awaits the renewal goes on with its outcome.                     *)
Resume(renewed) ==
    [c \in Calls |->
        CASE call[c].step = "before" -> [call[c] EXCEPT !.step = "send"]
          [] call[c].step = "again"  -> [call[c] EXCEPT !.step = IF renewed THEN "retry" ELSE "over"]
          [] OTHER                   -> call[c]]

(* saveSession with what the renewal brought. Cognito sends no new refresh   *)
(* token, so the stored one stays; the stand-in directory of a developer's   *)
(* machine sends one, and is not modelled.                                   *)
Renewed ==
    /\ Settled
    /\ renewal.step = "back"
    /\ LET renewed == renewal.token # NoCredential
       IN  /\ stored' = IF renewed THEN [stored EXCEPT !.token = renewal.token, !.due = FALSE]
                                   ELSE stored
           /\ call' = Resume(renewed)
    /\ renewal' = NoRenewal
    /\ UNCHANGED <<page, gone>>

(* Variant: the refresh token is left behind.                               *)
ForgetToken == [stored EXCEPT !.token = NoCredential, !.due = FALSE]

ClearToken == NoSession

(* The end of a call, for whoever awaits it: load() shows the person or     *)
(* nobody, signOut() clears whatever has become of its request.             *)
Ends(c, shown, cleared) ==
    LET kind == call[c].kind
    IN  /\ call' = [call EXCEPT ![c] = Idle]
        /\ stored' = IF cleared \/ kind = "logout" THEN ClearToken ELSE stored
        /\ page' = CASE kind = "me" -> shown [] kind = "logout" -> Nobody [] OTHER -> page
        /\ gone' = IF kind = "logout" THEN gone \cup ({page} \cap People) ELSE gone
        /\ UNCHANGED renewal

(* Variant: every failure is taken for an expiry.                           *)
AnyFailure(c) == call[c].step \in {"denied", "failed"}

Expired(c) == call[c].step = "denied"

(* Variant: a call that was renewed once is renewed again.                  *)
Ever(c) == TRUE

FirstTry(c) == call[c].tries = 1

(* The answer of a call reaches the tab; a first 401 asks for a renewal, a  *)
(* second one is thrown with the session as it is.                          *)
Answered(c) ==
    /\ Settled
    /\ call[c].step \in {"accepted", "denied", "failed"}
    /\ IF Expired(c) /\ FirstTry(c)
       THEN /\ AwaitRenewal(c, call[c], "again")
            /\ UNCHANGED <<stored, page, gone>>
       ELSE Ends(c, IF call[c].step = "accepted" THEN call[c].token.person ELSE Nobody, FALSE)

(* A call that was renewed goes out with the token stored by then, but not  *)
(* an upload, whose form cannot be sent twice: that one clears the session  *)
(* although it has just been renewed.                                       *)
Continue(c) ==
    \/ /\ call[c].step = "send" \/ (call[c].step = "retry" /\ call[c].kind # "upload")
       /\ call' = [call EXCEPT ![c] = Sent(@, stored.token, IF @.step = "send" THEN 1 ELSE 2)]
       /\ UNCHANGED <<stored, page, renewal, gone>>
    \/ /\ call[c].step = "over" \/ (call[c].step = "retry" /\ call[c].kind = "upload")
       /\ Ends(c, Nobody, TRUE)

(* The sign-in form is shown while nobody is; adopt stores the tokens and   *)
(* loads.                                                                   *)
SignIn(p, c) ==
    /\ Settled
    /\ page = Nobody
    /\ call[c].step = "idle"
    /\ stored' = [token |-> Fresh(p), refresh |-> Fresh(p), due |-> FALSE]
    /\ call' = [call EXCEPT ![c] = Sent([Idle EXCEPT !.kind = "me"], Fresh(p), 1)]
    /\ page' = Loading
    /\ gone' = gone \ {p}
    /\ UNCHANGED renewal

(* The tab is loaded anew: its storage stays, all that awaits is dropped.   *)
Reload ==
    /\ Settled
    /\ page' = Loading
    /\ call' = [c \in Calls |-> Idle]
    /\ renewal' = NoRenewal
    /\ UNCHANGED <<stored, gone>>

(* load() of a tab that was just opened.                                    *)
Load(c) ==
    /\ page = Loading
    /\ \A d \in Calls : call[d] = Idle
    /\ IF stored.token = NoCredential
       THEN page' = Nobody /\ UNCHANGED <<call, renewal>>
       ELSE Request(c, "me") /\ UNCHANGED page
    /\ UNCHANGED <<stored, gone>>

Due ==
    /\ Settled
    /\ stored.token # NoCredential
    /\ stored' = [stored EXCEPT !.due = TRUE]
    /\ UNCHANGED <<page, call, renewal, gone>>

----------------------------------------------------------------------------
(* The API and the directory                                                *)

Spoil(credential, p) ==
    IF credential.person = p THEN [credential EXCEPT !.good = FALSE] ELSE credential

(* admin_user_global_sign_out ends every refresh token of a person; the ID  *)
(* tokens stay valid, for the API verifies them by signature.               *)
Revoke(p) ==
    /\ stored' = [stored EXCEPT !.refresh = Spoil(@, p)]
    /\ renewal' = [renewal EXCEPT !.with = Spoil(@, p)]

(* Variant: the token's end is not verified.                                *)
AnySignature(token) == token # NoCredential

Verified(token) == token.good

(* The API runs the call; logout revokes, or hides that it could not.       *)
Accept(c) ==
    /\ call[c].step = "sent"
    /\ Verified(call[c].token)
    /\ call' = [call EXCEPT ![c].step = "accepted", ![c].served = @ + 1]
    /\ \/ call[c].kind = "logout" /\ Revoke(call[c].token.person)
       \/ /\ call[c].kind = "logout" => "directory" \in Faults
          /\ UNCHANGED <<stored, renewal>>
    /\ UNCHANGED <<page, gone>>

(* 401: no token, one that has expired, or keys that cannot be fetched.     *)
Deny(c) ==
    /\ call[c].step = "sent"
    /\ ~Verified(call[c].token) \/ "keys" \in Faults
    /\ call' = [call EXCEPT ![c].step = "denied", ![c].token = NoCredential]
    /\ UNCHANGED <<stored, page, renewal, gone>>

(* Another error: a limit, a suspended company, a refusal, no answer at all.*)
Fail(c) ==
    /\ \/ call[c].step = "sent" /\ Verified(call[c].token)
       \/ "network" \in Faults /\ call[c].step \in {"sent", "accepted", "denied"}
    /\ call' = [call EXCEPT ![c].step = "failed", ![c].token = NoCredential]
    /\ UNCHANGED <<stored, page, renewal, gone>>

Serve(c) == Accept(c) \/ Deny(c) \/ Fail(c)

(* POST /auth/refresh; its answer is a token or, for whatever reason, none. *)
Directory ==
    /\ renewal.step = "sent"
    /\ \/ /\ renewal.with.good
          /\ renewal' = [renewal EXCEPT !.step = "back", !.token = Fresh(renewal.with.person)]
       \/ /\ ~renewal.with.good \/ Faults \cap {"network", "directory"} # {}
          /\ renewal' = [renewal EXCEPT !.step = "back"]
    /\ UNCHANGED <<stored, page, call, gone>>

(* An hour passes: the tokens a person has been issued so far end.          *)
Lapse(p) ==
    /\ stored' = [stored EXCEPT !.token = Spoil(@, p)]
    /\ call' = [c \in Calls |-> [call[c] EXCEPT !.token = Spoil(@, p)]]
    /\ renewal' = [renewal EXCEPT !.token = Spoil(@, p)]
    /\ UNCHANGED <<page, gone>>

(* An administrator deactivates the person (set_enabled), who may be let in *)
(* again later.                                                             *)
Deactivate(p) ==
    /\ Revoke(p)
    /\ gone' = gone \cup {p}
    /\ UNCHANGED <<page, call>>

----------------------------------------------------------------------------
Next ==
    \/ \E c \in Calls : \E kind \in {"page", "upload", "logout"} : Begin(c, kind)
    \/ \E c \in Calls : Answered(c) \/ Continue(c) \/ Serve(c) \/ Load(c)
    \/ \E p \in People : (\E c \in Calls : SignIn(p, c)) \/ Lapse(p) \/ Deactivate(p)
    \/ Reload \/ Renewed \/ Due \/ Directory

Spec == Init /\ [][Next]_vars

(* The network ends what it has begun, the event loop takes every event in  *)
(* turn, and tokens grow old. Nobody has to call, sign in or reload.        *)
FairSpec ==
    /\ Spec
    /\ \A c \in Calls : WF_vars(Serve(c)) /\ WF_vars(Continue(c)) /\ SF_vars(Answered(c))
    /\ WF_vars(Directory) /\ SF_vars(Renewed)
    /\ \A p \in People : WF_vars(Lapse(p))

----------------------------------------------------------------------------
(* Properties *)

(* However often a call is refused, renewed, lost and sent again, the API   *)
(* runs it once: a question is not asked and charged twice.                 *)
ServedOnce == \A c \in Calls : call[c].served <= 1

(* Who has left begins no renewal that the directory would grant: one that   *)
(* was under way at a sign-out may still bring a token, and it is the last.  *)
LeaversDoNotRenew ==
    [][\A p \in gone :
          renewal'.step = "sent" /\ renewal'.with = Fresh(p) =>
              renewal.step = "sent" /\ renewal.with = Fresh(p)]_vars

(* No call waits for ever, be it for a renewal that others began or for the *)
(* token that a renewal keeps bringing and the API keeps refusing.          *)
CallsEnd == \A c \in Calls : call[c].step # "idle" ~> call[c].step = "idle"

(* Who has signed out or was deactivated is out for good after the life of  *)
(* a token: also when the directory could not revoke, and when a renewal is *)
(* answered after the sign-out and stores a token once more.                *)
WhoLeavesIsOut ==
    \A p \in People :
        <>[](p \in gone) =>
            <>[](\A c \in Calls : ~(call[c].step = "accepted" /\ call[c].token.person = p))
=============================================================================
