---------------------------- MODULE Provisioning ----------------------------
(***************************************************************************)
(* Signing in to Daktela: the wizard, ProvisioningController, and the      *)
(* provider's chain of requests (login, whoami, SIP device), each sent     *)
(* from the handler of the reply before it.  What a sign-in has learnt so  *)
(* far is kept in members of the one provider, and closing the wizard      *)
(* cancels nothing, so a second sign-in may run into the replies of the    *)
(* first.                                                                  *)
(*                                                                         *)
(* Hosts, tokens and devices are known by the number of the sign-in they   *)
(* belong to.                                                              *)
(***************************************************************************)
EXTENDS Naturals, FiniteSets

CONSTANT MaxSignIns      \* bound: sign-ins

ASSUME SignInsAssumption == MaxSignIns \in Nat

VARIABLES
  wizard,         \* the dialog's step; "closed" when it is not shown
  signIns,        \* sign-ins begun
  requests,       \* requests without a reply: stage, server asked, token sent
  m_host, m_accessToken, m_extensionRecord,
  m_pendingParams,
  prompted,       \* the extension the wizard asks the SIP password of
  overlapping,    \* history: a sign-in began with a request in flight
  added           \* history: the account added last

signInVars == <<wizard, signIns, requests, m_host, m_accessToken, m_extensionRecord,
                m_pendingParams, prompted, overlapping, added>>

Nobody == 0
NoParams == [domain |-> Nobody, username |-> Nobody]
gathered == <<m_host, m_accessToken, m_extensionRecord>>

SignInInit ==
  /\ wizard = "closed" /\ signIns = 0 /\ requests = {}
  /\ m_host = Nobody /\ m_accessToken = Nobody /\ m_extensionRecord = Nobody
  /\ m_pendingParams = NoParams /\ prompted = NoParams
  /\ overlapping = FALSE /\ added = NoParams

\* buildAccountParams: the server from m_host, the rest from the device record;
\* nothing without a record.
BuildAccountParams(host, device) ==
  IF device = Nobody THEN NoParams ELSE [domain |-> host, username |-> device]

Request(stage, host, token) == [stage |-> stage, host |-> host, token |-> token]

-----------------------------------------------------------------------------
(* What the wizard makes of the provider's signals.                        *)

\* onProvisioningProgress, for the stages before "done".
ShowProgress == wizard' = IF wizard = "closed" THEN "closed" ELSE "provisioning"

\* Mutant: a failure leaves the busy step on screen.
StaysBusy(step) == wizard' = step

\* onProvisioningFailed: the password step stays, else back to the form.
ShowFailure(step) == wizard' = IF step \in {"closed", "extension-password"} THEN step ELSE "form"

\* fail(): provisioningFailed.
Fail == ShowFailure(wizard) /\ UNCHANGED <<m_pendingParams, prompted, added>>

\* provisioningSucceeded: addAccount, which may fail to save; the wizard closes.
Succeed(params) ==
  \/ added' = params /\ wizard' = "closed"
  \/ ShowFailure(wizard) /\ UNCHANGED added

\* Mutant: params that wait for a password already are not replaced.
KeepsPending(params) == IF m_pendingParams = NoParams THEN params ELSE m_pendingParams

\* m_pendingParams as promptForPassword leaves it.
Pending(params) == params

\* promptForPassword, and passwordRequired in the wizard.
PromptForPassword(params) ==
  \/ params = NoParams /\ Fail
  \/ /\ params # NoParams
     /\ m_pendingParams' = Pending(params) /\ prompted' = params
     /\ wizard' = IF wizard = "closed" THEN "closed" ELSE "extension-password"
     /\ UNCHANGED added

-----------------------------------------------------------------------------
(* The user.                                                               *)

\* openFor(): from the first step, whatever is still going on.
OpenWizard ==
  /\ wizard = "closed" /\ wizard' = "form"
  /\ UNCHANGED <<signIns, requests, gathered, m_pendingParams, prompted, overlapping, added>>

\* Esc, Cancel, or the window's own button, which works in every step.
CloseWizard ==
  /\ wizard # "closed" /\ wizard' = "closed"
  /\ UNCHANGED <<signIns, requests, gathered, m_pendingParams, prompted, overlapping, added>>

\* Back, from the password step.
LeavePasswordStep ==
  /\ wizard = "extension-password" /\ wizard' = "form"
  /\ UNCHANGED <<signIns, requests, gathered, m_pendingParams, prompted, overlapping, added>>

\* The members are reset and the first request sent; input without a usable host
\* is refused after the reset.
BeginSignIn(s, token, valid, request) ==
  /\ wizard = "form" /\ s <= MaxSignIns
  /\ signIns' = s
  /\ m_host' = IF valid THEN s ELSE Nobody
  /\ m_accessToken' = token
  /\ \/ valid /\ ShowProgress /\ requests' = requests \cup {request}
        /\ UNCHANGED <<m_pendingParams, prompted, added>>
     \/ ~valid /\ Fail /\ UNCHANGED requests
  /\ overlapping' = (overlapping \/ requests # {})
  /\ UNCHANGED m_extensionRecord

\* provision(): user and password are sent to the login.
Provision(valid) ==
  LET s == signIns + 1 IN BeginSignIn(s, Nobody, valid, Request("login", s, Nobody))

\* provisionWithToken(): straight to whoami.
ProvisionWithToken(valid) ==
  LET s == signIns + 1 IN BeginSignIn(s, s, valid, Request("whoami", s, s))

\* completeWithPassword, from the wizard's password step.
CompleteWithPassword ==
  /\ wizard = "extension-password"
  /\ \/ m_pendingParams = NoParams /\ Fail
     \/ /\ m_pendingParams # NoParams
        /\ m_pendingParams' = NoParams /\ UNCHANGED prompted
        /\ Succeed(m_pendingParams)
  /\ UNCHANGED <<signIns, requests, gathered, overlapping>>

-----------------------------------------------------------------------------
(* Replies.  A transfer timeout ends every request, so a failure is always *)
(* among the outcomes; a server turns away a token it did not issue.       *)

Accepted(r) == r.host # Nobody /\ r.token = r.host

\* startWhoamiFetch, with the members of the moment.
StartWhoamiFetch(token) == Request("whoami", m_host, token)

OnLoginReply(r) ==
  /\ r.stage = "login"
  /\ \/ /\ requests' = requests \ {r}
        /\ m_accessToken' \in {m_accessToken, Nobody}
        /\ Fail
     \/ /\ m_accessToken' = r.host
        /\ requests' = (requests \ {r}) \cup {StartWhoamiFetch(r.host)}
        /\ ShowProgress /\ UNCHANGED <<m_pendingParams, prompted, added>>
  /\ UNCHANGED <<signIns, m_host, m_extensionRecord, overlapping>>

\* onWhoamiReply: the extension found, its record kept, the device asked for.
OnWhoamiReply(r) ==
  /\ r.stage = "whoami"
  /\ \/ requests' = requests \ {r} /\ UNCHANGED m_extensionRecord /\ Fail
     \/ /\ Accepted(r)
        /\ m_extensionRecord' = r.host
        /\ requests' = (requests \ {r}) \cup {Request("device", m_host, m_accessToken)}
        /\ ShowProgress /\ UNCHANGED <<m_pendingParams, prompted, added>>
  /\ UNCHANGED <<signIns, m_host, m_accessToken, overlapping>>

\* onSipDeviceReply: an error, or a record without a name, falls back to what
\* whoami told; a record without its secret is kept; both ask for the password.
OnSipDeviceReply(r) ==
  /\ r.stage = "device" /\ requests' = requests \ {r}
  /\ \/ Fail
     \/ PromptForPassword(BuildAccountParams(m_host, m_extensionRecord))
     \/ Accepted(r) /\ PromptForPassword(BuildAccountParams(m_host, r.host))
     \/ Accepted(r) /\ Succeed(BuildAccountParams(m_host, r.host)) /\ UNCHANGED <<m_pendingParams, prompted>>
  /\ UNCHANGED <<signIns, gathered, overlapping>>

Reply(r) == OnLoginReply(r) \/ OnWhoamiReply(r) \/ OnSipDeviceReply(r)

SignInNext ==
  \/ OpenWizard \/ CloseWizard \/ LeavePasswordStep
  \/ \E valid \in BOOLEAN : Provision(valid) \/ ProvisionWithToken(valid)
  \/ CompleteWithPassword
  \/ \E r \in requests : Reply(r)

\* The 15 s transfer timeout of every request.
SignInFairness == WF_signInVars(\E r \in requests : Reply(r))

-----------------------------------------------------------------------------
\* Unless sign-ins overlapped, the account that is added joins the server and the
\* extension of one and the same sign-in, whichever way it went (password or token,
\* secret fetched, withheld or denied, wizard closed and opened again), and the
\* password typed goes to the extension the wizard shows (DaktelaProvider's
\* members m_host, m_accessToken, m_extensionRecord and m_pendingParams).
SignInConsistent ==
  overlapping
  \/ /\ added.domain = added.username
     /\ \A r \in requests : r.host = signIns /\ r.token \in {Nobody, signIns}
     /\ wizard = "extension-password" /\ m_pendingParams # NoParams => m_pendingParams = prompted

\* A wizard that shows its busy step does not stay there: the chain of requests
\* ends in an account, an error or the question for the password, since every
\* request times out (setTransferTimeout in provision, startWhoamiFetch and
\* onWhoamiReply), even where the replies of two sign-ins mix.
SignInAnswered == (wizard = "provisioning") ~> (wizard # "provisioning")
=============================================================================
