-------------------------------- MODULE Api --------------------------------
(***************************************************************************)
(* The HTTP interface of the backend as the panel sees it: every route of  *)
(* the controllers, with who may call it, the facts its answer is read     *)
(* from, the facts it changes before it answers, and the facts that work   *)
(* it only queued changes later.                                           *)
(*                                                                         *)
(* A fact is one table, or one thing of the host (the containers, the      *)
(* images, the files of the volumes, a DNS zone), taken as a whole; of a   *)
(* deployments row, "state" is what deploys and probes write, "deployment" *)
(* what users set.                                                         *)
(* Deleting a row counts as a change of the tables that cascade from it    *)
(* (db/schema/tables.ts).                                                  *)
(***************************************************************************)
EXTENDS Naturals

Facts ==
  { "deployment", "state", "domains", "ports", "env", "webhook", "releases",
    "cronRuns", "containers", "dockerImages", "backups", "schedules",
    "destinations", "volumes", "tasks", "users", "audit", "settings",
    "zones", "records", "files", "stats", "host" }

Roles == {"ADMIN", "OPERATOR", "VIEWER"}

(* What the @Roles of a route (or its own assertSelfOrAdmin) let through.  *)
(* The panel only opens a user's own page to that user and to admins, so   *)
(* "self" never refuses on the pages modelled here.                        *)
Permits(need, role) ==
  CASE need = "admin"   -> role = "ADMIN"
    [] need = "operate" -> role \in {"ADMIN", "OPERATOR"}
    [] OTHER            -> TRUE

Route(need, reads, writes, later) ==
  [need |-> need, reads |-> reads, writes |-> writes, later |-> later]

Get(facts)              == Route("any", facts, {}, {})
GetAsAdmin(facts)       == Route("admin", facts, {}, {})
Changes(need, facts)    == Route(need, {}, facts, {})
Queues(need, now, later) == Route(need, {}, now, later)

(* admin *)
GetImages       == GetAsAdmin({"dockerImages", "containers"})
DeleteImage     == Changes("admin", {"dockerImages"})
PruneImages     == Changes("admin", {"dockerImages", "tasks", "audit"})
GetContainers   == GetAsAdmin({"containers"})
PruneContainers == Changes("admin", {"containers", "tasks", "audit"})
GetSettings     == GetAsAdmin({"settings"})
UpdateSettings  == Changes("admin", {"settings", "audit"})

(* audit *)
AuditList == GetAsAdmin({"audit"})

(* auth: the signed-in user, and the second factor of an account *)
Me               == Get({"users"})
TwoFactorSetup   == Changes("self", {})
TwoFactorConfirm == Changes("self", {"users", "audit"})
TwoFactorRequire == Changes("admin", {"users", "audit"})
TwoFactorDisable == Changes("self", {"users", "audit"})

(* backups, their destinations and their schedules *)
BackupsList        == Get({"backups"})
BackupsVolumes     == Get({"volumes"})
BackupsCreate      == Queues("operate", {"backups", "tasks", "audit"},
                                        {"backups", "tasks"})
BackupsRestore     == Queues("operate", {"tasks", "audit"},
                                        {"tasks", "files", "containers"})
BackupsPush        == Queues("operate", {"tasks", "audit"}, {"tasks"})
BackupsRemove      == Changes("operate", {"backups", "tasks"})
DestinationsList   == Get({"destinations"})
DestinationsCreate == Changes("operate", {"destinations"})
DestinationsRemove == Changes("operate", {"destinations"})
SchedulesList      == Get({"schedules"})
SchedulesCreate    == Changes("operate", {"schedules"})
SchedulesEnable    == Changes("operate", {"schedules"})
SchedulesRemove    == Changes("operate", {"schedules"})
VolumesList        == Get({"containers", "deployment"})
VolumesReset       == Queues("operate", {"tasks", "audit"},
                                        {"tasks", "files", "containers"})

(* deployment actions *)
CronRun        == Changes("operate", {"cronRuns", "containers"})
CronRunHistory == Get({"cronRuns"})
Deploy         == Queues("operate", {"releases", "state", "audit"},
                         {"releases", "state", "containers", "dockerImages"})
Stop           == Queues("operate", {"audit"}, {"state", "containers"})
Start          == Deploy    \* a compose deployment starts by a deploy
Restart        == Start
Rename         == Changes("operate", {"deployment", "audit"})
Rollback       == Queues("operate", {"state", "audit"},
                         {"state", "containers", "releases"})
DeploymentRemove ==
  Changes("admin", {"deployment", "state", "domains", "ports", "env", "webhook",
                    "releases", "cronRuns", "schedules", "backups", "tasks",
                    "containers", "records", "audit"})
ListReleases   == Get({"releases"})
DeleteRelease  == Changes("operate", {"releases", "containers", "dockerImages"})
GetRelease     == Get({"releases"})

(* deployments, their domains and host-port bindings, their limits *)
DeploymentsCreate   == Changes("operate", {"deployment", "state", "domains", "records"})
DeploymentsList     == Get({"deployment", "state", "domains"})
DeploymentsGet      == Get({"deployment", "state", "domains"})
DeploymentsUpdate   == Changes("operate", {"deployment", "domains"})
DomainsList         == Get({"domains"})
AddDomain           == Changes("operate", {"domains", "records"})
UpdateDomainTarget  == Changes("operate", {"domains"})
MakeDomainPrimary   == Changes("operate", {"domains"})
RemoveDomain        == Changes("operate", {"domains", "ports", "records"})
PortBindings        == Get({"domains"})
SuggestPortBinding  == Get({"ports", "settings"})
AddPortBinding      == Changes("operate", {"domains", "ports"})
UpdatePortBinding   == Changes("operate", {"domains", "ports"})
RemovePortBinding   == Changes("operate", {"domains", "ports"})
ServiceResources    == Get({"deployment"})
SetServiceResources == Changes("operate", {"deployment"})

(* dns *)
Zones          == Get({"zones"})
RegisterZone   == Changes("operate", {"zones"})
UnregisterZone == Changes("operate", {"zones"})
Records        == Get({"records"})
CreateRecord   == Changes("operate", {"records"})
UpdateRecord   == Changes("operate", {"records"})
RemoveRecord   == Changes("operate", {"records"})

(* environment variables *)
EnvList       == Get({"env"})
EnvSet        == Changes("operate", {"env", "audit"})
EnvUpdateMeta == Changes("operate", {"env", "audit"})
EnvRemove     == Changes("operate", {"env", "audit"})

(* files of a volume *)
FilesList       == Get({"files"})
FilesRead       == Get({"files"})
FilesIdentities == Get({"files"})
FilesWrite      == Changes("operate", {"files", "audit"})
FilesMkdir      == Changes("operate", {"files", "audit"})
FilesMove       == Changes("operate", {"files", "audit"})
FilesChmod      == Changes("operate", {"files", "audit"})
FilesChown      == Changes("operate", {"files", "audit"})
FilesUpload     == Changes("operate", {"files", "audit"})
FilesRemove     == Changes("operate", {"files", "audit"})

(* the rest *)
Branches          == Changes("operate", {})
DeploymentStats   == Get({"stats"})
DeploymentHistory == Get({"stats"})
SystemStats       == GetAsAdmin({"stats"})
SystemHistory     == GetAsAdmin({"stats"})
Info              == Get({"host"})
Resources         == Get({"host"})
SystemImages      == Get({"dockerImages"})
PublicIp          == Get({"host"})
TasksList         == Get({"tasks"})
TasksClearAll     == Changes("any", {"tasks"})
TasksClear        == Changes("any", {"tasks"})
UsersList         == GetAsAdmin({"users"})
UsersGet          == Get({"users"})
UsersCreate       == Changes("admin", {"users", "audit"})
UsersUpdate       == Changes("self", {"users", "audit"})
UsersSetPassword  == Changes("self", {"users", "audit"})
UsersSetDisabled  == Changes("admin", {"users", "audit"})
UsersRemove       == Changes("admin", {"users", "audit"})
WebhookStatus     == Get({"webhook"})
WebhookRotate     == Changes("operate", {"webhook", "audit"})
=============================================================================
