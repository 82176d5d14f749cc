------------------------------- MODULE Records -------------------------------
(***************************************************************************)
(* The rows the panel edits and what follows them, one component at a time:     *)
(* accounts, domains and ports, DNS records, secrets and the key rotation,       *)
(* the settings forms, webhook deliveries, backup schedules, and the files of    *)
(* a volume.  They share no state, so in each behaviour one of them acts.        *)
(* A component's constants and variables carry the name of its instance; what    *)
(* they are is said in its module.                                               *)
(***************************************************************************)
EXTENDS Naturals, FiniteSets

CONSTANTS
  Acc_Users, Acc_Emails, Acc_SeedEmail, Acc_Requests, Acc_MaxOps,
  Dom_Ids, Dom_Bindings, Dom_Ports, Dom_Requests, Dom_MaxOps,
  Dns_Names, Dns_Requests, Dns_MaxIds, Dns_MaxOps,
  Sec_EnvVars, Sec_Texts, Sec_Requests, Sec_MaxOps,
  Edi_Users, Edi_MaxOps,
  Del_Deliveries, Del_Requests, Del_MaxSends, Del_MaxFaults,
  Sch_Ids, Sch_Requests, Sch_MaxOps, Sch_MaxTicks, Sch_MaxFaults,
  Fil_Names, Fil_Texts, Fil_Start, Fil_Slots, Fil_MaxOps

VARIABLES
  part,  \* the component that acts
  Acc_row, Acc_request, Acc_overlapped, Acc_ops,
  Dom_domain, Dom_port, Dom_request, Dom_broken, Dom_widened, Dom_ops,
  Dns_domain, Dns_zone, Dns_row, Dns_ours, Dns_edited, Dns_request, Dns_disturbed, Dns_lost,
  Dns_ids, Dns_ops,
  Sec_row, Sec_server, Sec_script, Sec_meta, Sec_stored, Sec_secret, Sec_busy, Sec_crossed, Sec_ops,
  Edi_row, Edi_tokens, Edi_routed, Edi_page, Edi_want, Edi_muddled, Edi_ops,
  Del_secret, Del_signs, Del_auto, Del_claimed, Del_redis, Del_request, Del_deploys, Del_excused,
  Del_broken, Del_refused, Del_sends, Del_faults,
  Sch_row, Sch_used, Sch_jobs, Sch_request, Sch_run, Sch_muddled, Sch_started, Sch_ops,
  Sch_ticks, Sch_faults,
  Fil_volume, Fil_tree, Fil_tabs, Fil_op, Fil_saved, Fil_ops, Fil_careless

Acc == INSTANCE Accounts WITH Users <- Acc_Users, Emails <- Acc_Emails,
  SeedEmail <- Acc_SeedEmail, Requests <- Acc_Requests, MaxOps <- Acc_MaxOps, row <- Acc_row,
  request <- Acc_request, overlapped <- Acc_overlapped, ops <- Acc_ops
Dom == INSTANCE Domains WITH Ids <- Dom_Ids, Bindings <- Dom_Bindings, Ports <- Dom_Ports,
  Requests <- Dom_Requests, MaxOps <- Dom_MaxOps, domain <- Dom_domain, port <- Dom_port,
  request <- Dom_request, broken <- Dom_broken, widened <- Dom_widened, ops <- Dom_ops
Dns == INSTANCE DnsRecords WITH Names <- Dns_Names, Requests <- Dns_Requests,
  MaxIds <- Dns_MaxIds, MaxOps <- Dns_MaxOps, domain <- Dns_domain, zone <- Dns_zone,
  row <- Dns_row, ours <- Dns_ours, edited <- Dns_edited, request <- Dns_request,
  disturbed <- Dns_disturbed, lost <- Dns_lost, ids <- Dns_ids, ops <- Dns_ops
Sec == INSTANCE Secrets WITH EnvVars <- Sec_EnvVars, Texts <- Sec_Texts,
  Requests <- Sec_Requests, MaxOps <- Sec_MaxOps, row <- Sec_row, server <- Sec_server,
  script <- Sec_script, meta <- Sec_meta, stored <- Sec_stored, secret <- Sec_secret,
  busy <- Sec_busy, crossed <- Sec_crossed, ops <- Sec_ops
Edi == INSTANCE Edits WITH Users <- Edi_Users, MaxOps <- Edi_MaxOps, row <- Edi_row,
  tokens <- Edi_tokens, routed <- Edi_routed, page <- Edi_page, want <- Edi_want,
  muddled <- Edi_muddled, ops <- Edi_ops
Del == INSTANCE Intake WITH Deliveries <- Del_Deliveries, Requests <- Del_Requests,
  MaxSends <- Del_MaxSends, MaxFaults <- Del_MaxFaults, secret <- Del_secret,
  signs <- Del_signs, auto <- Del_auto, claimed <- Del_claimed, redis <- Del_redis,
  request <- Del_request, deploys <- Del_deploys, excused <- Del_excused, broken <- Del_broken,
  refused <- Del_refused, sends <- Del_sends, faults <- Del_faults
Sch == INSTANCE Schedules WITH Ids <- Sch_Ids, Requests <- Sch_Requests, MaxOps <- Sch_MaxOps,
  MaxTicks <- Sch_MaxTicks, MaxFaults <- Sch_MaxFaults, row <- Sch_row, used <- Sch_used,
  jobs <- Sch_jobs, request <- Sch_request, run <- Sch_run, muddled <- Sch_muddled,
  started <- Sch_started, ops <- Sch_ops, ticks <- Sch_ticks, faults <- Sch_faults
Fil == INSTANCE FileManager WITH Names <- Fil_Names, Texts <- Fil_Texts, Start <- Fil_Start,
  Slots <- Fil_Slots, MaxOps <- Fil_MaxOps, volume <- Fil_volume, tree <- Fil_tree,
  tabs <- Fil_tabs, op <- Fil_op, saved <- Fil_saved, ops <- Fil_ops, careless <- Fil_careless

(***************************************************************************)
(* What the proofs take for granted of the constants.                          *)
(***************************************************************************)
\* "none" is no address and no user; there is a user to seed.
Acc_Assumption ==
  /\ "none" \notin Acc_Emails \cup Acc_Users /\ Acc_SeedEmail \in Acc_Emails /\ Acc_Users # {}
  /\ Acc_MaxOps \in Nat
\* "none" is no domain and no binding; a host port is not 0.
Dom_Assumption ==
  /\ Dom!None \notin Dom_Ids \cup Dom_Bindings /\ Dom_Ports \subseteq Nat \ {0} /\ Dom_MaxOps \in Nat
\* "none" is no name.
Dns_Assumption == "none" \notin Dns_Names /\ Dns_MaxIds \in Nat /\ Dns_MaxOps \in Nat
\* "none" is no text and no variable; the rows of the other tables are no variables.
Sec_Assumption ==
  /\ Sec!None \notin Sec_Texts \cup Sec_EnvVars /\ Sec_EnvVars \cap Sec!Others = {}
  /\ Sec_MaxOps \in Nat
\* "none" is no delivery; the rest says that the bounds are bounds.
Del_Assumption ==
  /\ Del!None \notin Del_Deliveries /\ IsFiniteSet(Del_Requests)
  /\ Del_MaxSends \in Nat /\ Del_MaxFaults \in Nat
\* "none" is no schedule.
Sch_Assumption ==
  /\ Sch!None \notin Sch_Ids
  /\ Sch_MaxOps \in Nat /\ Sch_MaxTicks \in Nat /\ Sch_MaxFaults \in Nat
\* A bound is a number.
Edi_Assumption == Edi_MaxOps \in Nat
\* A file may be empty, and no text is a folder; the volume begins as a tree of both.
Fil_Assumption ==
  /\ Fil_Slots # {} /\ "" \in Fil_Texts /\ "<dir>" \notin Fil_Texts /\ Fil_MaxOps \in Nat
  /\ DOMAIN Fil_Start \subseteq Fil!Paths /\ \A p \in DOMAIN Fil_Start : Fil_Start[p] \in Fil!Nodes
  /\ \A p \in DOMAIN Fil_Start : Fil!dirOf(p) # <<>> =>
       Fil!dirOf(p) \in DOMAIN Fil_Start /\ Fil_Start[Fil!dirOf(p)] = "<dir>"

ASSUME RecordsAssumption ==
  /\ Acc_Assumption /\ Dom_Assumption /\ Dns_Assumption
  /\ Sec_Assumption /\ Edi_Assumption /\ Del_Assumption /\ Sch_Assumption
  /\ Fil_Assumption

accountsVars == <<Acc_row, Acc_request, Acc_overlapped, Acc_ops>>
domainsVars == <<Dom_domain, Dom_port, Dom_request, Dom_broken, Dom_widened, Dom_ops>>
dnsVars == <<Dns_domain, Dns_zone, Dns_row, Dns_ours, Dns_edited, Dns_request, Dns_disturbed,
  Dns_lost, Dns_ids, Dns_ops>>
secretsVars == <<Sec_row, Sec_server, Sec_script, Sec_meta, Sec_stored, Sec_secret, Sec_busy,
  Sec_crossed, Sec_ops>>
editsVars == <<Edi_row, Edi_tokens, Edi_routed, Edi_page, Edi_want, Edi_muddled, Edi_ops>>
intakeVars == <<Del_secret, Del_signs, Del_auto, Del_claimed, Del_redis, Del_request, Del_deploys,
  Del_excused, Del_broken, Del_refused, Del_sends, Del_faults>>
schedulesVars == <<Sch_row, Sch_used, Sch_jobs, Sch_request, Sch_run, Sch_muddled,
  Sch_started, Sch_ops, Sch_ticks, Sch_faults>>
filesVars == <<Fil_volume, Fil_tree, Fil_tabs, Fil_op, Fil_saved, Fil_ops, Fil_careless>>
allVars == <<part, accountsVars, domainsVars, dnsVars, secretsVars, editsVars, intakeVars,
  schedulesVars, filesVars>>

Parts == {"accounts", "domains", "dns", "secrets", "edits", "intake", "schedules", "files"}
SumInit ==
  /\ part \in Parts
  /\ Acc!Init /\ Dom!Init /\ Dns!Init /\ Sec!Init /\ Edi!Init /\ Del!Init /\ Sch!Init /\ Fil!Init
SumNext ==
  \/ part = "accounts" /\ Acc!Next
     /\ UNCHANGED <<part, domainsVars, dnsVars, secretsVars, editsVars, intakeVars, schedulesVars, filesVars>>
  \/ part = "domains" /\ Dom!Next
     /\ UNCHANGED <<part, accountsVars, dnsVars, secretsVars, editsVars, intakeVars, schedulesVars, filesVars>>
  \/ part = "dns" /\ Dns!Next
     /\ UNCHANGED <<part, accountsVars, domainsVars, secretsVars, editsVars, intakeVars, schedulesVars, filesVars>>
  \/ part = "secrets" /\ Sec!Next
     /\ UNCHANGED <<part, accountsVars, domainsVars, dnsVars, editsVars, intakeVars, schedulesVars, filesVars>>
  \/ part = "edits" /\ Edi!Next
     /\ UNCHANGED <<part, accountsVars, domainsVars, dnsVars, secretsVars, intakeVars, schedulesVars, filesVars>>
  \/ part = "intake" /\ Del!Next
     /\ UNCHANGED <<part, accountsVars, domainsVars, dnsVars, secretsVars, editsVars, schedulesVars, filesVars>>
  \/ part = "schedules" /\ Sch!Next
     /\ UNCHANGED <<part, accountsVars, domainsVars, dnsVars, secretsVars, editsVars, intakeVars, filesVars>>
  \/ part = "files" /\ Fil!Next
     /\ UNCHANGED <<part, accountsVars, domainsVars, dnsVars, secretsVars, editsVars, intakeVars, schedulesVars>>
SumSpec == SumInit /\ [][SumNext]_allVars

(* Module Accounts: who may change whom, and what a request does to the row it read. *)
AccountsInv == part = "accounts" => Acc!AccountsInv

(* Module Domains: one primary name per deployment, one binding per host port. *)
DomainsInv == part = "domains" => Dom!DomainsInv

(* Module DnsRecords: the rows of managed records match what is at the provider. *)
DnsInv == part = "dns" => Dns!DnsInv

(* Module Secrets: a key rotation loses no secret, and no listing shows one. *)
SecretsInv == part = "secrets" => Sec!SecretsInv

(* Module Edits: a save changes what its form shows, and a deleted deployment leaves nothing. *)
EditsInv == part = "edits" => Edi!EditsInv

(* Module Intake: a delivery deploys once, and one that is refused has been dealt with. *)
IntakeInv == part = "intake" => Del!IntakeInv

(* Module Schedules: the timers match the rows, through restarts. *)
SchedulesInv == part = "schedules" => Sch!SchedulesInv

(* Module FileManager: the tree and the tabs match the volume they were read from. *)
FilesInv == part = "files" => Fil!FilesInv
=============================================================================
