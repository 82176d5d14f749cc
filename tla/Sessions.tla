------------------------------- MODULE Sessions -------------------------------
(***************************************************************************)
(* One user's session: sign-in with an optional second factor, rotation of  *)
(* the refresh token, and everything that revokes it (AuthService,             *)
(* TwoFactorService, TwoFactorLockoutService, UsersService), together with the   *)
(* browser that holds the tokens (api/client.ts, AuthContext).                     *)
(*                                                                               *)
(* The row keeps the hash of one refresh token.  Every handler reads the row,      *)
(* awaits, and writes the hash without looking again.  Tokens are numbered in the   *)
(* order they are minted; two of the same second are the same token, since nothing   *)
(* in their payload differs.  Access tokens are left out: one that is refused makes    *)
(* its caller refresh, which a caller may do at any time here.                          *)
(***************************************************************************)
EXTENDS Naturals, FiniteSets

CONSTANTS
  Callers,      \* concurrent requests of the user's browser
  TabOf,        \* the tab each belongs to
  FirstTab,     \* the tab that is open at the beginning
  MAX_ATTEMPTS, \* wrong codes before the second factor is refused
  MaxTokens,    \* bound: refresh tokens minted
  MaxRare       \* bound: how many of Rare happen, each at most once

VARIABLES
  account,  \* users row: disabled, twoFactorEnabled, a twoFactorSecret is stored
  hash,     \* refreshTokenHash: the token it admits, and the epoch its issuer started in
  counter,  \* Redis: failed codes, and whether the key expires
  call,     \* requests in flight
  store,    \* the refresh token in localStorage; 0 when there is none
  minted,   \* number of the last refresh token
  admin,    \* an administrator's request between two statements
  epoch,    \* how often sessions were revoked
  wrong,    \* wrong codes that were looked at since the counter was last cleared
  rare      \* which of the rare events happened

vars == <<account, hash, counter, call, store, minted, admin, epoch, wrong, rare>>
server == <<account, hash, admin, epoch>>
browser == <<store, minted>>
lockout == <<counter, wrong>>

Revocations == {"disable", "password", "require", "logout"}
Failures == {"lost", "crash", "bootfails"}
Rare == Revocations \cup Failures \cup {"reset", "enroll", "elsewhere", "secondtab", "blip", "redis"}
NoToken == [tok |-> 0, since |-> 0]
NoCall == [at |-> "idle", flow |-> "none", tok |-> 0, since |-> 0]
NoFailures == [n |-> 0, expires |-> FALSE]

TypeOK ==
  /\ account \in [disabled : BOOLEAN, required : BOOLEAN, secret : BOOLEAN]
  /\ hash \in [tok : 0..MaxTokens, since : 0..epoch]
  /\ counter \in [n : 0..(MAX_ATTEMPTS + Cardinality(Callers)), expires : BOOLEAN]
  /\ call \in [Callers -> [at : {"idle", "sent", "code", "checked", "wrong", "expiring", "right",
                                  "enabling", "issue", "answer", "denied", "leaving", "left"},
                           flow : {"none", "refresh", "login", "verify", "setup", "logout"},
                           tok : 0..MaxTokens, since : 0..epoch]]
  /\ store \in 0..MaxTokens /\ minted \in 0..MaxTokens
  /\ admin \in {"idle", "requiring"} /\ epoch \in Nat /\ wrong \in Nat /\ rare \subseteq Rare

Init ==
  /\ account \in [disabled : {FALSE}, required : BOOLEAN, secret : BOOLEAN] /\ (account.secret => account.required)
  /\ hash = NoToken /\ counter = NoFailures
  /\ call = [c \in Callers |-> NoCall]
  /\ store = 0 /\ minted = 0 /\ admin = "idle" /\ epoch = 0 /\ wrong = 0 /\ rare = {}

Rarely(e) ==
  /\ e \notin rare /\ Cardinality(rare) < MaxRare
  /\ rare' = rare \cup {e}

Open(c) == TabOf[c] = FirstTab \/ "secondtab" \in rare
Goes(c, at) == call' = [call EXCEPT ![c].at = at]
Ends(c) == call' = [call EXCEPT ![c] = NoCall]

-----------------------------------------------------------------------------
(* AuthService. *)

(* login: the password is right and the row is read.  Without a second factor a session is issued; *)
(* otherwise the browser gets a challenge, to verify a code or to set the factor up. *)
Login(c) ==
  /\ call[c].at = "idle" /\ Open(c) /\ store = 0 /\ ~account.disabled
  /\ \A d \in Callers \ {c} : TabOf[d] = TabOf[c] => call[d].at = "idle"
  /\ call' = [call EXCEPT ![c] =
       [at |-> IF account.required THEN "code" ELSE "issue", tok |-> 0, since |-> epoch,
        flow |-> IF ~account.required THEN "login" ELSE IF account.secret THEN "verify" ELSE "setup"]]
  /\ UNCHANGED <<server, lockout, browser, rare>>

(* issueSession: a token is signed and its hash replaces whatever the row has. *)
Issue(c) ==
  /\ call[c].at = "issue"
  /\ \E n \in {minted, minted + 1} \cap (1..MaxTokens) :
       /\ minted' = n /\ hash' = [tok |-> n, since |-> call[c].since]
       /\ call' = [call EXCEPT ![c].at = "answer", ![c].tok = n]
  /\ UNCHANGED <<account, admin, epoch, lockout, store, rare>>

(* refresh: the row is read and the presented token compared with its hash. *)
Refresh(c) ==
  /\ call[c].at = "sent"
  /\ IF ~account.disabled /\ hash.tok = call[c].tok
     THEN call' = [call EXCEPT ![c].at = "issue", ![c].since = epoch]
     ELSE Goes(c, "denied")
  /\ UNCHANGED <<server, lockout, browser, rare>>

(* logout clears the hash; a disabled account is refused. *)
Logout(c) ==
  /\ call[c].at = "leaving" /\ Goes(c, "left")
  /\ IF account.disabled THEN UNCHANGED <<hash, epoch>> ELSE hash' = NoToken /\ epoch' = epoch + 1
  /\ UNCHANGED <<account, admin, lockout, browser, rare>>

-----------------------------------------------------------------------------
(* The second factor, and its lockout. *)

(* A code is entered: the counter is read first, and counts as 0 when Redis cannot be asked. *)
AssertNotLockedOut(c) ==
  /\ call[c].at = "code" /\ Goes(c, "checked")
  /\ \/ counter.n < MAX_ATTEMPTS /\ UNCHANGED rare
     \/ counter.n >= MAX_ATTEMPTS /\ Rarely("redis")
  /\ UNCHANGED <<server, lockout, browser>>

(* The code is compared with the stored secret, or with the candidate of the set-up token. *)
VerifyCode(c) ==
  /\ call[c].at = "checked"
  /\ \/ Goes(c, "wrong") /\ wrong' = wrong + 1
     \/ (call[c].flow = "setup" \/ account.secret) /\ Goes(c, "right") /\ UNCHANGED wrong
  /\ UNCHANGED <<server, counter, browser, rare>>

(* Mutant: the window is anchored to the last failure that is allowed. *)
RecordFailureLate(c) ==
  /\ call[c].at = "wrong"
  /\ counter' = [counter EXCEPT !.n = @ + 1]
  /\ Goes(c, IF counter.n = MAX_ATTEMPTS THEN "expiring" ELSE "code")
  /\ UNCHANGED <<server, wrong, browser, rare>>

(* recordFailure counts, and the first failure of a window sets the key to expire ... *)
RecordFailure(c) ==
  /\ call[c].at = "wrong"
  /\ \/ /\ counter' = [counter EXCEPT !.n = @ + 1]
        /\ Goes(c, IF counter.n = 0 THEN "expiring" ELSE "code")
        /\ UNCHANGED rare
     \/ Rarely("redis") /\ Goes(c, "code") /\ UNCHANGED counter
  /\ UNCHANGED <<server, wrong, browser>>

(* ... by a second call. *)
SetExpiry(c) ==
  /\ call[c].at = "expiring" /\ Goes(c, "code")
  /\ \/ counter' = [counter EXCEPT !.expires = counter.n > 0] /\ UNCHANGED rare
     \/ Rarely("redis") /\ UNCHANGED counter
  /\ UNCHANGED <<server, wrong, browser>>

(* A right code deletes the counter. *)
Clear(c) ==
  /\ call[c].at = "right" /\ Goes(c, IF call[c].flow = "setup" THEN "enabling" ELSE "issue")
  /\ \/ counter' = NoFailures /\ wrong' = 0 /\ UNCHANGED rare
     \/ Rarely("redis") /\ UNCHANGED lockout
  /\ UNCHANGED <<server, browser>>

(* confirmTotpSetup persists the secret before it issues the session. *)
Enable(c) ==
  /\ call[c].at = "enabling" /\ Goes(c, "issue")
  /\ account' = [account EXCEPT !.required = TRUE, !.secret = TRUE]
  /\ UNCHANGED <<hash, admin, epoch, lockout, browser, rare>>

(* The challenge expires, or the user goes away. *)
GiveUp(c) == call[c].at = "code" /\ Ends(c) /\ UNCHANGED <<server, lockout, browser, rare>>

(* Redis drops the key when its window is over. *)
WindowEnds ==
  /\ counter.expires /\ counter' = NoFailures /\ wrong' = 0
  /\ UNCHANGED <<server, call, browser, rare>>

-----------------------------------------------------------------------------
(* The row, changed by the user or an administrator. *)

Revoked == hash' = NoToken /\ epoch' = epoch + 1

SetPassword == Rarely("password") /\ Revoked /\ UNCHANGED <<account, admin, call, lockout, browser>>

SetDisabled(yes) ==
  /\ account.disabled # yes /\ account' = [account EXCEPT !.disabled = yes]
  /\ IF yes THEN Rarely("disable") /\ Revoked ELSE UNCHANGED <<hash, epoch, rare>>
  /\ UNCHANGED <<admin, call, lockout, browser>>

(* TwoFactorService.require is two statements. *)
Require ==
  /\ Rarely("require") /\ admin' = "requiring"
  /\ account' = [account EXCEPT !.required = TRUE]
  /\ UNCHANGED <<hash, epoch, call, lockout, browser>>
RequireThen ==
  /\ admin = "requiring" /\ admin' = "idle" /\ Revoked
  /\ UNCHANGED <<account, call, lockout, browser, rare>>

(* DELETE 2fa, and the enrolment of a user who is signed in. *)
ResetTwoFactor ==
  /\ Rarely("reset") /\ account' = [account EXCEPT !.required = FALSE, !.secret = FALSE]
  /\ UNCHANGED <<hash, admin, epoch, call, lockout, browser>>
Enrol ==
  /\ Rarely("enroll") /\ store # 0 /\ account' = [account EXCEPT !.required = TRUE, !.secret = TRUE]
  /\ UNCHANGED <<hash, admin, epoch, call, lockout, browser>>

(* The user signs in with another device. *)
Elsewhere ==
  /\ Rarely("elsewhere") /\ ~account.disabled /\ minted < MaxTokens
  /\ minted' = minted + 1 /\ hash' = [tok |-> minted + 1, since |-> epoch]
  /\ UNCHANGED <<account, admin, epoch, call, lockout, store>>

-----------------------------------------------------------------------------
(* The browser. *)

OpenTab == Rarely("secondtab") /\ UNCHANGED <<server, call, lockout, browser>>

(* Mutant: every request that is refused refreshes for itself. *)
RefreshEach(c) ==
  /\ call[c].at = "idle" /\ Open(c) /\ store # 0
  /\ call' = [call EXCEPT ![c] = [at |-> "sent", flow |-> "refresh", tok |-> store, since |-> epoch]]
  /\ UNCHANGED <<server, lockout, browser, rare>>

(* authFetch after a 401: the requests of a tab share one refresh. *)
RefreshTokens(c) ==
  /\ call[c].at = "idle" /\ Open(c) /\ store # 0
  /\ \A d \in Callers : TabOf[d] = TabOf[c] => call[d].flow # "refresh"
  /\ call' = [call EXCEPT ![c] = [at |-> "sent", flow |-> "refresh", tok |-> store, since |-> epoch]]
  /\ UNCHANGED <<server, lockout, browser, rare>>

(* The new tokens are stored, by refreshTokens or applySession. *)
Answer(c) ==
  /\ call[c].at = "answer" /\ store' = call[c].tok /\ Ends(c)
  /\ UNCHANGED <<server, lockout, minted, rare>>

(* A refused refresh token ends the session: whatever tokens are stored by then are cleared. *)
Denied(c) ==
  /\ call[c].at = "denied" /\ store' = 0 /\ Ends(c)
  /\ UNCHANGED <<server, lockout, minted, rare>>

(* A rate limit, a server error or a network failure before the server saw the token. *)
Blip(c) ==
  /\ call[c].at = "sent" /\ Rarely("blip") /\ Ends(c)
  /\ UNCHANGED <<server, lockout, browser>>

(* The answer does not arrive, or the page was left in the meantime. *)
Lose(c) ==
  /\ call[c].at = "answer" /\ Rarely("lost") /\ Ends(c)
  /\ UNCHANGED <<server, lockout, browser>>

(* logout: the tokens are cleared whatever the server answers. *)
Leave(c) ==
  /\ call[c].at = "idle" /\ Open(c) /\ store # 0 /\ Rarely("logout")
  /\ call' = [call EXCEPT ![c] = [at |-> "leaving", flow |-> "logout", tok |-> 0, since |-> epoch]]
  /\ UNCHANGED <<server, lockout, browser>>
Left(c) ==
  /\ call[c].at = "left" /\ store' = 0 /\ Ends(c)
  /\ UNCHANGED <<server, lockout, minted, rare>>

(* AuthProvider asks for the user when the page loads, and clears the tokens when that fails. *)
BootFails ==
  /\ store # 0 /\ Rarely("bootfails") /\ store' = 0
  /\ UNCHANGED <<server, call, lockout, minted>>

(* The backend restarts: handlers stop where they are. *)
Crash ==
  /\ Rarely("crash") /\ call' = [c \in Callers |-> NoCall]
  /\ admin' = "idle"
  /\ UNCHANGED <<account, hash, epoch, lockout, browser>>

Handler(c) ==
  \/ Issue(c) \/ Refresh(c) \/ Logout(c) \/ VerifyCode(c) \/ RecordFailure(c) \/ SetExpiry(c)
  \/ Clear(c) \/ Enable(c)

Client(c) ==
  \/ Login(c) \/ AssertNotLockedOut(c) \/ GiveUp(c) \/ RefreshTokens(c) \/ Answer(c) \/ Denied(c)
  \/ Blip(c) \/ Lose(c) \/ Leave(c) \/ Left(c)

Next ==
  \/ \E c \in Callers : Handler(c) \/ Client(c)
  \/ WindowEnds \/ SetPassword \/ (\E yes \in BOOLEAN : SetDisabled(yes)) \/ Require \/ RequireThen
  \/ ResetTwoFactor \/ Enrol \/ Elsewhere \/ OpenTab \/ BootFails \/ Crash

Spec == Init /\ [][Next]_vars

(* Handlers run to their end, and Redis drops keys that are over. *)
Fairness == WF_vars(WindowEnds) /\ \A c \in Callers : WF_vars(Handler(c))
FairSpec == Spec /\ Fairness

-----------------------------------------------------------------------------
Quiet == \A c \in Callers : call[c].at \in {"idle", "code"}
Without(events) == rare \cap events = {}

(* However the requests of a tab overlap, and whatever fails before the server has seen a token,    *)
(* the browser holds exactly the refresh token the row admits: single-flight refresh never uses a   *)
(* token twice and never ends a session nobody revoked (client.ts).                                 *)
InStep ==
  Quiet /\ Without(Revocations \cup Failures \cup {"elsewhere", "secondtab"}) => store = hash.tok

(* While Redis answers, no more than MAX_ATTEMPTS wrong codes are looked at in a window, and one     *)
(* more for every other request that had passed the check by then (TwoFactorLockoutService).          *)
GuessesBounded ==
  Without({"redis", "crash"}) => wrong <= MAX_ATTEMPTS + Cardinality(Callers) - 1

(* Both, with the type of the state. *)
SessionsInv == TypeOK /\ InStep /\ GuessesBounded

(* A lockout ends by itself, unless a failure comes between the two calls of recordFailure. *)
LockoutEnds ==
  counter.n >= MAX_ATTEMPTS /\ Without({"redis", "crash"}) ~>
    counter.n < MAX_ATTEMPTS \/ ~Without({"redis", "crash"})

(* "a network blip is transient - we keep the session" (client.ts:20-22): an answer that is lost leaves *)
(* the browser with a token the row admits. *)
BlipKeepsSession == Quiet /\ rare \subseteq {"lost", "blip"} /\ store # 0 => store = hash.tok

(* "Force re-login everywhere after a password change" (users.service.ts): a token the row admits     *)
(* was issued by a request that began after the last revocation. *)
RevokedForGood == hash.tok # 0 => hash.since = epoch

(* The lockout self-clears whatever fails (two-factor-lockout.service.ts). *)
LockoutSelfClears == counter.n >= MAX_ATTEMPTS ~> counter.n < MAX_ATTEMPTS

=============================================================================
