-------------------------------- MODULE Hooks -------------------------------
(***************************************************************************)
(* The data layer of the panel (frontend/src/api/hooks.ts): a query is a   *)
(* cache key and the route its data comes from; a mutation is the route it *)
(* calls and the keys it invalidates when the answer is a success.         *)
(*                                                                         *)
(* A key is a sequence; one deployment, one user, one zone, one volume and *)
(* one service stand for all of them ("id", "zone", "volume", "service"):  *)
(* keys of different ids never match.                                      *)
(***************************************************************************)
EXTENDS Api, Sequences, SequencesExt

(* fresh: "onMount" refetches whenever the query is shown again, "kept"    *)
(* trusts the data for the staleTime (longer than a behaviour of the       *)
(* model); polled: refetchInterval is set.                                 *)
Query(key, route)  == [key |-> key, route |-> route, kept |-> FALSE, polled |-> FALSE]
Polled(key, route) == [Query(key, route) EXCEPT !.polled = TRUE]
Kept(key, route)   == [Query(key, route) EXCEPT !.kept = TRUE]

Mutation(route, invalidates) == [route |-> route, invalidates |-> invalidates]

(* invalidateQueries matches every key the given one is a prefix of.       *)
Matches(prefix, key) == IsPrefix(prefix, key)

deployments      == <<"deployments">>
deployment       == <<"deployments", "id">>
releases         == <<"deployments", "id", "releases">>
env              == <<"deployments", "id", "env">>
webhook          == <<"deployments", "id", "webhook">>
systemInfo       == <<"system", "info">>
deploymentAction == <<"deployment-action", "id">>
filesKey         == <<"deployments", "id", "files", "volume">>

(* dns *)
useDnsZones        == Query(<<"dns", "zones">>, Zones)
useDnsRecords      == Query(<<"dns", "records", "zone">>, Records)
useRegisterZone    == Mutation(RegisterZone, {<<"dns", "zones">>})
useUnregisterZone  == Mutation(UnregisterZone, {<<"dns", "zones">>})
useCreateDnsRecord == Mutation(CreateRecord, {<<"dns", "records", "zone">>})
useUpdateDnsRecord == Mutation(UpdateRecord, {<<"dns", "records", "zone">>})
useDeleteDnsRecord == Mutation(RemoveRecord, {<<"dns", "records", "zone">>})

(* system; useSystemInfo stops polling once it has data *)
useSystemInfo       == Kept(systemInfo, Info)
useHostResources    == Kept(<<"system", "resources">>, Resources)
useDockerImages     == Kept(<<"system", "images">>, SystemImages)
useHostPublicIp     == Kept(<<"system", "public-ip">>, PublicIp)
useDiscoverBranches == Mutation(Branches, {})

(* backups *)
useBackups            == Polled(<<"backups", "deployment", "id">>, BackupsList)
useBackupVolumes      == Query(<<"backups", "volumes">>, BackupsVolumes)
useCreateBackup       == Mutation(BackupsCreate, {<<"backups">>})
useDeleteBackup       == Mutation(BackupsRemove, {<<"backups">>})
useCreateBackupFor    == Mutation(BackupsCreate, {<<"backups">>})
useRestoreBackup      == Mutation(BackupsRestore, {<<"backups">>})
useBackupDestinations == Query(<<"backups", "destinations">>, DestinationsList)
useCreateDestination  == Mutation(DestinationsCreate, {<<"backups", "destinations">>})
useDeleteDestination  == Mutation(DestinationsRemove, {<<"backups", "destinations">>})
usePushBackup         == Mutation(BackupsPush, {<<"backups">>})
useBackupSchedules    == Query(<<"backups", "schedules", "deployment", "id">>, SchedulesList)
useCreateSchedule     == Mutation(SchedulesCreate, {<<"backups", "schedules">>})
(* Mutant: the key lacks the segment every key of a schedule has. *)
useSetScheduleEnabledOfId == Mutation(SchedulesEnable, {<<"backups", "schedules", "id">>})
useSetScheduleEnabled == Mutation(SchedulesEnable, {<<"backups", "schedules">>})
useDeleteSchedule     == Mutation(SchedulesRemove, {<<"backups", "schedules">>})

(* users *)
useUsers            == Query(<<"users">>, UsersList)
useUser             == Query(<<"users", "id">>, UsersGet)
useCreateUser       == Mutation(UsersCreate, {<<"users">>})
invalidateUser      == {<<"users">>, <<"users", "id">>}
useUpdateUser       == Mutation(UsersUpdate, {<<"users">>, <<"users", "id">>})
useSetUserPassword  == Mutation(UsersSetPassword, {<<"users", "id">>})
useSetUserDisabled  == Mutation(UsersSetDisabled, {<<"users">>, <<"users", "id">>})
useDeleteUser       == Mutation(UsersRemove, {<<"users">>})
useStartTwoFactor   == Mutation(TwoFactorSetup, {})
useConfirmTwoFactor == Mutation(TwoFactorConfirm, invalidateUser)
useDisableTwoFactor == Mutation(TwoFactorDisable, invalidateUser)
useRequireTwoFactor == Mutation(TwoFactorRequire, invalidateUser)

(* deployments *)
invalidateDomains    == {<<"deployments", "id", "domains">>, deployment, deployments}
invalidateDeployment == {deployment, releases, deployments}

useDeployments          == Polled(deployments, DeploymentsList)
useDeployment           == Polled(deployment, DeploymentsGet)
useDeploymentContainers == Polled(<<"deployments", "id", "containers">>, VolumesList)
useDeploymentDomains    == Query(<<"deployments", "id", "domains">>, DomainsList)
useAddDomain            == Mutation(AddDomain, invalidateDomains)
useUpdateDomainTarget   == Mutation(UpdateDomainTarget, invalidateDomains)
useMakeDomainPrimary    == Mutation(MakeDomainPrimary, invalidateDomains)
useRemoveDomain         == Mutation(RemoveDomain, invalidateDomains)
useSuggestBindingPort   == Query(<<"deployments", "id", "domains", "domain", "bindings", "suggest">>,
                                 SuggestPortBinding)
useAddBinding           == Mutation(AddPortBinding, invalidateDomains)
useUpdateBinding        == Mutation(UpdatePortBinding, invalidateDomains)
useRemoveBinding        == Mutation(RemovePortBinding, invalidateDomains)
useServiceResources     == Query(<<"deployments", "id", "services", "service", "resources">>,
                                 ServiceResources)
useUpdateServiceResources ==
  Mutation(SetServiceResources, {<<"deployments", "id", "services", "service", "resources">>})
useResetVolume          == Mutation(VolumesReset, {<<"deployments", "id", "containers">>})
useReleases             == Polled(releases, ListReleases)
useCronRuns             == Polled(<<"deployments", "id", "cron-runs">>, CronRunHistory)
useRunCron              == Mutation(CronRun, {<<"deployments", "id", "cron-runs">>})
useEnvVars              == Query(env \o <<"service">>, EnvList)
useCreateDeployment     == Mutation(DeploymentsCreate, {deployments})
useUpdateDeployment     == Mutation(DeploymentsUpdate, {deployment, deployments})
useRenameDeployment     == Mutation(Rename, {deployment, deployments})
useWebhook              == Query(webhook, WebhookStatus)
useRotateWebhook        == Mutation(WebhookRotate, {webhook})
useDeploy               == Mutation(Deploy, invalidateDeployment)
useRollback             == Mutation(Rollback, invalidateDeployment)
useDeleteRelease        == Mutation(DeleteRelease, invalidateDeployment)
useRestart              == Mutation(Restart, invalidateDeployment)
useStop                 == Mutation(Stop, invalidateDeployment)
useStart                == Mutation(Start, invalidateDeployment)
useRemoveDeployment     == Mutation(DeploymentRemove, {deployments})
useSetEnvVar            == Mutation(EnvSet, {env \o <<"service">>})
useUpdateEnvVarMeta     == Mutation(EnvUpdateMeta, {env \o <<"service">>})
useDeleteEnvVar         == Mutation(EnvRemove, {env \o <<"service">>})

(* host administration, statistics, tasks, audit *)
useAdminImages            == Query(<<"admin", "images", "all">>, GetImages)
useDeleteAdminImage       == Mutation(DeleteImage, {<<"admin", "images">>})
usePruneImages            == Mutation(PruneImages, {<<"admin", "images">>})
useAdminContainers        == Query(<<"admin", "containers", "all">>, GetContainers)
usePruneContainers        == Mutation(PruneContainers, {<<"admin", "containers">>})
useAppSettings            == Query(<<"admin", "settings">>, GetSettings)
useUpdateAppSettings      == Mutation(UpdateSettings, {<<"admin", "settings">>})
useDeploymentStats        == Polled(<<"deployments", "id", "stats">>, DeploymentStats)
useSystemStats            == Polled(<<"admin", "stats">>, SystemStats)
useSystemStatsHistory     == Polled(<<"admin", "stats", "history", "window">>, SystemHistory)
useDeploymentStatsHistory == Polled(<<"deployments", "id", "stats", "history", "window">>,
                                    DeploymentHistory)
useTasks                  == Polled(<<"tasks", "recent">>, TasksList)
(* Mutant: without its refetchInterval. *)
useDeploymentTasksOnce    == Query(<<"tasks", "deployment", "id">>, TasksList)
useDeploymentTasks        == Polled(<<"tasks", "deployment", "id">>, TasksList)
useClearTask              == Mutation(TasksClear, {<<"tasks">>})
useClearTasks             == Mutation(TasksClearAll, {<<"tasks">>})
useAuditLogs              == Query(<<"audit">>, AuditList)

(* files of a volume: every mutation goes through useFileMutation *)
useVolumeIdentities   == Kept(<<"deployments", "id", "identities", "volume">>, FilesIdentities)
useFileMutation(route) == Mutation(route, {filesKey})
useWriteFile          == useFileMutation(FilesWrite)
useMkdir              == useFileMutation(FilesMkdir)
useMoveFile           == useFileMutation(FilesMove)
useChmod              == useFileMutation(FilesChmod)
useChown              == useFileMutation(FilesChown)
useDeleteFile         == useFileMutation(FilesRemove)
useUploadFile         == useFileMutation(FilesUpload)

(* The signed-in user is not in the query cache: AuthProvider reads it     *)
(* once, at start-up, and keeps it in its state.                           *)
useAuth == Kept(<<"auth", "me">>, Me)
=============================================================================
