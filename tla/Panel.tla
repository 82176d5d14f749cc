---------------------------------- MODULE Panel ----------------------------------
(***************************************************************************)
(* The browser's side: QueryCache (any screen, any query, any role), and in      *)
(* parts of their own ActionButtons and Sessions.  They share no state: in each    *)
(* behaviour one of them acts.                                                       *)
(***************************************************************************)
EXTENDS QueryCache, FiniteSets

CONSTANTS
  Btn_MaxClicks, Btn_MaxOthers,
  Ses_Callers, Ses_TabOf, Ses_FirstTab, Ses_MAX_ATTEMPTS, Ses_MaxTokens, Ses_MaxRare

(* A page has requests, and some wrong codes are allowed; the others are bounds. *)
ASSUME SessionsAssumption ==
  /\ IsFiniteSet(Ses_Callers) /\ Ses_MAX_ATTEMPTS \in Nat \ {0} /\ Ses_MaxTokens \in Nat
ASSUME ButtonsAssumption == Btn_MaxClicks \in Nat /\ Btn_MaxOthers \in Nat

VARIABLES
  part,  \* the component that acts
  Btn_row, Btn_queue, Btn_view, Btn_fetch, Btn_pending, Btn_call, Btn_clicks, Btn_others,
  Btn_disturbed,
  Ses_account, Ses_hash, Ses_counter, Ses_call, Ses_store, Ses_minted, Ses_admin, Ses_epoch,
  Ses_wrong, Ses_rare

Btn == INSTANCE ActionButtons WITH MaxClicks <- Btn_MaxClicks, MaxOthers <- Btn_MaxOthers, row <- Btn_row,
  queue <- Btn_queue, view <- Btn_view, fetch <- Btn_fetch, pending <- Btn_pending,
  call <- Btn_call, clicks <- Btn_clicks, others <- Btn_others, disturbed <- Btn_disturbed
Ses == INSTANCE Sessions WITH Callers <- Ses_Callers, TabOf <- Ses_TabOf,
  FirstTab <- Ses_FirstTab, MAX_ATTEMPTS <- Ses_MAX_ATTEMPTS, MaxTokens <- Ses_MaxTokens,
  MaxRare <- Ses_MaxRare, account <- Ses_account, hash <- Ses_hash,
  counter <- Ses_counter, call <- Ses_call, store <- Ses_store, minted <- Ses_minted,
  admin <- Ses_admin, epoch <- Ses_epoch, wrong <- Ses_wrong, rare <- Ses_rare

buttonsVars == <<Btn_row, Btn_queue, Btn_view, Btn_fetch, Btn_pending, Btn_call, Btn_clicks,
  Btn_others, Btn_disturbed>>
sessionsVars == <<Ses_account, Ses_hash, Ses_counter, Ses_call, Ses_store, Ses_minted, Ses_admin,
  Ses_epoch, Ses_wrong, Ses_rare>>
allVars == <<part, vars, buttonsVars, sessionsVars>>

Parts == {"cache", "buttons", "sessions"}
(* A part that does not act has one initial state. *)
SumInit ==
  /\ part \in Parts /\ Init /\ Btn!Init /\ Ses!Init
  /\ part /= "cache" => watched = useAuth /\ views = Views(useAuth, "ADMIN")
  /\ part /= "buttons" => Btn_row.state = "ERROR" /\ ~Btn_row.release
  /\ part /= "sessions" => ~Ses_account.required
SumNext ==
  \/ part = "cache" /\ Next
     /\ UNCHANGED <<part, buttonsVars, sessionsVars>>
  \/ part = "buttons" /\ Btn!Next
     /\ UNCHANGED <<part, vars, sessionsVars>>
  \/ part = "sessions" /\ Ses!Next
     /\ UNCHANGED <<part, vars, buttonsVars>>
SumSpec ==
  /\ SumInit /\ [][SumNext]_allVars
  /\ WF_vars(part = "cache" /\ Poll)
  /\ WF_vars(part = "cache" /\ ServerReads)
  /\ WF_vars(part = "cache" /\ FetchAnswered)
  /\ \A p \in Btn!Parts : WF_buttonsVars(part = "buttons" /\ Btn!Mark(p))
  /\ \A p \in Btn!Parts : WF_buttonsVars(part = "buttons" /\ Btn!Enqueue(p))
  /\ \A p \in Btn!Parts : WF_buttonsVars(part = "buttons" /\ Btn!Answered(p))
  /\ WF_buttonsVars(part = "buttons" /\ Btn!Poll)
  /\ WF_buttonsVars(part = "buttons" /\ Btn!ServerReads)
  /\ WF_buttonsVars(part = "buttons" /\ Btn!FetchAnswered)
  /\ WF_buttonsVars(part = "buttons" /\ Btn!JobEnds)
  /\ WF_sessionsVars(part = "sessions" /\ Ses!WindowEnds)
  /\ \A c \in Ses_Callers : WF_sessionsVars(part = "sessions" /\ Ses!Handler(c))

(* Module QueryCache: the type invariant, ShowsOwnWrites and ControlsFollowRole. *)
QueryCacheInv == part = "cache" => TypeOK /\ ShowsOwnWrites /\ ControlsFollowRole

(* Module ActionButtons: a spinner covers its job, and it stops. *)
ButtonsInv == part = "buttons" => Btn!ButtonsInv
SpinnersStop == Btn!SpinnersStop

(* Module Sessions: the browser and the row stay in step, guesses are bounded, and a lockout ends. *)
SessionsInv == part = "sessions" => Ses!SessionsInv
LockoutEnds == Ses!LockoutEnds

=============================================================================
