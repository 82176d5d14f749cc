------------------------------- MODULE PanelProofs -------------------------------
(***************************************************************************)
(* The safety invariants of the panel, for every bound, every set of        *)
(* requests and every query: the query cache and the table of the screens,  *)
(* the buttons of a deployment, and the sessions of a browser.  Each part   *)
(* has the invariant that is inductive, a lemma per action that it keeps    *)
(* it, and the theorem.                                                     *)
(***************************************************************************)
EXTENDS Panel, FiniteSetTheorems, SequenceTheorems, TLAPS

(* ----------------------------------------------------------------------- *)
(* QueryCache.                                                              *)

(* Queries that nobody promises to be fresh. *)
Exempt(q) == q.polled \/ q \in NotRefreshed

(* What the table of the screens says of one of them: it is refused nothing, and a control that   *)
(* is answered for invalidates what it changes. *)
Effects == [as : Sources \cup {"none"}, invalidates : BOOLEAN]
SoundView(v, q) ==
  /\ v.shown \in BOOLEAN /\ ~v.refused /\ v.offers \subseteq Effects
  /\ \A e \in v.offers : e.as = "own" => e.invalidates \/ Exempt(q)

CacheTypes ==
  /\ watched \in Watchable /\ screen \in views /\ \A v \in views : SoundView(v, watched)
  /\ data \in [has : BOOLEAN, misses : SUBSET Sources]
  /\ fetch \in [at : {"idle", "asked", "read"}, misses : SUBSET Sources]
  /\ call \in [at : {"idle", "sent", "done"}, does : Effects]
  /\ invalid \in BOOLEAN /\ failed \in BOOLEAN
  /\ others \in 0..MaxOthers /\ faults \in 0..MaxFaults
  /\ call.does.as = "own" => call.does.invalidates \/ Exempt(watched)

(* A change of this tab that is missing is about to be answered for, or its query is marked. *)
OwnAnswered == call.at = "done" /\ call.does.as = "own"
MissesMarked ==
  ~Exempt(watched) =>
    /\ "own" \in data.misses => data.has /\ (invalid \/ OwnAnswered)
    /\ "own" \in fetch.misses => fetch.at = "read" /\ OwnAnswered
(* A marked query on the screen is being read again, unless that failed. *)
MarkedAsked == invalid /\ screen.shown => fetch.at # "idle" \/ failed

CacheIInv == CacheTypes /\ MissesMarked /\ MarkedAsked

(* What a control tells the cache: nothing it has to, or that it invalidates the query. *)
Told(m, q) == m = useRemoveDeployment \/ ~ChangesData(m, q) \/ Invalidates(m, q) \/ Exempt(q)
(* A part of a screen that asks nothing of the server its role may not have. *)
Gated(p) ==
  /\ \A q \in p.shows \ UngatedQueries : q.route.need = "any"
  /\ \A o \in p.does : \/ o.hook \in Ungated \/ o.gate = "admin"
                       \/ o.hook.route.need \in {"any", "self"}
                       \/ o.gate = "operate" /\ o.hook.route.need = "operate"
(* A part whose queries learn of what its own controls change, and read nothing of some facts. *)
PageTold(p, facts) ==
  \A q \in p.shows \cup p.admins :
    /\ Exempt(q) \/ q.route.reads \cap facts = {}
    /\ \A o \in p.does : Told(o.hook, q)
(* What the controls of the shell and of the bar of a deployment change, its removal aside. *)
Bar == {"tasks", "releases", "state", "audit"}

LEMMA Together2 ==
  ASSUME NEW a, NEW b
  PROVE  /\ Together({a, b}).shows = a.shows \cup b.shows
         /\ Together({a, b}).admins = a.admins \cup b.admins
         /\ Together({a, b}).does = a.does \cup b.does
BY DEF Together

LEMMA Together3 ==
  ASSUME NEW a, NEW b, NEW c
  PROVE  /\ Together({a, b, c}).shows = a.shows \cup b.shows \cup c.shows
         /\ Together({a, b, c}).admins = a.admins \cup b.admins \cup c.admins
         /\ Together({a, b, c}).does = a.does \cup b.does \cup c.does
BY DEF Together

LEMMA Gated2 ==
  ASSUME NEW a, NEW b, Gated(a), Gated(b)
  PROVE  Gated(Together({a, b}))
BY Together2 DEF Gated

LEMMA Gated3 ==
  ASSUME NEW a, NEW b, NEW c, Gated(a), Gated(b), Gated(c)
  PROVE  Gated(Together({a, b, c}))
<1>1. /\ Together({a, b, c}).shows = a.shows \cup b.shows \cup c.shows
      /\ Together({a, b, c}).does = a.does \cup b.does \cup c.does
  BY Together3
<1> QED
  BY <1>1 DEF Gated

LEMMA Prefix1of1 == \A a : IsPrefix(<<a>>, <<a>>)
BY DEF IsPrefix

LEMMA Prefix1of2 == \A a, b : IsPrefix(<<a>>, <<a, b>>)
BY DEF IsPrefix

LEMMA Prefix2of2 == \A a, b : IsPrefix(<<a, b>>, <<a, b>>)
BY DEF IsPrefix

LEMMA Prefix2of3 == \A a, b, c : IsPrefix(<<a, b>>, <<a, b, c>>)
BY DEF IsPrefix

LEMMA Prefix3of3 == \A a, b, c : IsPrefix(<<a, b, c>>, <<a, b, c>>)
BY DEF IsPrefix

LEMMA Prefix2of4 == \A a, b, c, d : IsPrefix(<<a, b>>, <<a, b, c, d>>)
BY DEF IsPrefix

LEMMA Prefix2of5 == \A a, b, c, d, e : IsPrefix(<<a, b>>, <<a, b, c, d, e>>)
BY DEF IsPrefix

LEMMA Prefix5of5 == \A a, b, c, d, e : IsPrefix(<<a, b, c, d, e>>, <<a, b, c, d, e>>)
BY DEF IsPrefix

LEMMA Prefix3of6 == \A a, b, c, d, e, f : IsPrefix(<<a, b, c>>, <<a, b, c, d, e, f>>)
BY DEF IsPrefix

LEMMA PrefixAppended == \A a, b, c, d : IsPrefix(<<a, b, c>> \o <<d>>, <<a, b, c>> \o <<d>>)
<1> SUFFICES ASSUME NEW a, NEW b, NEW c, NEW d
             PROVE  IsPrefix(<<a, b, c>> \o <<d>>, <<a, b, c>> \o <<d>>)
  OBVIOUS
<1> DEFINE S == {a, b, c, d} s == <<a, b, c>> \o <<d>>
<1>1. <<a, b, c>> \in Seq(S) /\ <<d>> \in Seq(S)
  OBVIOUS
<1>2. s \in Seq(S)
  BY <1>1
<1> HIDE DEF s
<1>3. SubSeq(s, 1, Len(s)) = s /\ Len(s) <= Len(s)
  BY <1>2
<1> QED
  BY <1>3 DEF IsPrefix, s

LEMMA AppShellGated == Gated(AppShell)
<1>1. Gated(ActivityMenu)
  BY DEF Gated, Ungated, UngatedQueries, ActivityMenu, Together, TaskRow, Part, Anyone, Offer,
     useTasks, Polled, TasksList, Get, Route, Query, useClearTasks, Mutation, TasksClearAll,
     Changes, useClearTask, TasksClear
<1>2. Gated(AccountMenu)
  BY DEF Gated, Ungated, UngatedQueries, AccountMenu, Part, useAuth, Kept, Me, Get, Route, Query
<1> QED
  BY <1>1, <1>2, Gated2 DEF AppShell

LEMMA LoginPageGated == Gated(LoginPage)
BY DEF Gated, Ungated, UngatedQueries, LoginPage, Part, useSystemInfo, Kept, Info, Get, Route, Query

LEMMA DeploymentsPageGated == Gated(DeploymentsPage)
BY DEF Gated, Ungated, UngatedQueries, DeploymentsPage, Together, DeploymentRow, DeployActions,
   Part, OperateButton, Offer, AdminOnly, SystemUtilization, useDeployments, Polled,
   DeploymentsList, Get, Route, Query, useSystemStats, SystemStats, GetAsAdmin,
   useSystemStatsHistory, SystemHistory, useDeploy, Mutation, Deploy, Queues, useRestart, Restart,
   Start, useStop, Stop, useStart, useRemoveDeployment, DeploymentRemove, Changes

LEMMA CreateDeploymentPageGated == Gated(CreateDeploymentPage)
<1>1. Gated(SourceStep)
  BY DEF Gated, Ungated, UngatedQueries, SourceStep, SourceFields, Together, GitRepoFields, Part,
     Anyone, Offer, ImageSourceFields, useDockerImages, Kept, SystemImages, Get, Route, Query,
     useDiscoverBranches, Mutation, Branches, Changes
<1>2. Gated(DomainStep)
  BY DEF Gated, Ungated, UngatedQueries, DomainStep, DomainPicker, Part, useDnsZones, Query, Zones,
     Get, Route, useSystemInfo, Kept, Info
<1>3. Gated(Part({useSystemInfo, useHostResources}, OperateButton({useCreateDeployment})))
  BY DEF Gated, Ungated, UngatedQueries, Part, OperateButton, Offer, useSystemInfo, Kept, Info, Get,
     Route, Query, useHostResources, Resources, useCreateDeployment, Mutation, DeploymentsCreate,
     Changes
<1> QED
  BY <1>1, <1>2, <1>3, Gated3 DEF CreateDeploymentPage

LEMMA DnsPageGated == Gated(DnsPage)
BY DEF Gated, Ungated, UngatedQueries, DnsPage, Together, ManageZonesDialog, Part, Anyone, Offer,
   OperateButton, useDnsZones, Query, Zones, Get, Route, useDnsRecords, Records, useHostPublicIp,
   Kept, PublicIp, useCreateDnsRecord, Mutation, CreateRecord, Changes, useDeleteDnsRecord,
   RemoveRecord, useRegisterZone, RegisterZone, useUnregisterZone, UnregisterZone

LEMMA BackupsPageGated == Gated(BackupsPage)
BY DEF Gated, Ungated, UngatedQueries, BackupsPage, BackupDestinations, Together,
   NewDestinationDialog, Part, OperateButton, Offer, useBackupDestinations, Query, DestinationsList,
   Get, Route, useDeleteDestination, Mutation, DestinationsRemove, Changes, useCreateDestination,
   DestinationsCreate

LEMMA DeploymentDetailPageGated == Gated(DeploymentDetailPage)
BY DEF Gated, Ungated, UngatedQueries, DeploymentDetailPage, Together, DeployActions, Part,
   OperateButton, Offer, AdminOnly, useDeployment, Polled, DeploymentsGet, Get, Route, Query,
   useDeploymentContainers, VolumesList, useDeploy, Mutation, Deploy, Queues, useRestart, Restart,
   Start, useStop, Stop, useStart, useRemoveDeployment, DeploymentRemove, Changes

LEMMA UserDetailPageGated == Gated(UserDetailPage)
BY DEF Gated, Ungated, UngatedQueries, UserDetailPage, Part, useUser, Query, UsersGet, Get, Route

LEMMA OverviewTabGated == Gated(OverviewTab)
BY DEF Gated, Ungated, UngatedQueries, OverviewTab, Together, ReleasesGrid, Part, OperateButton,
   Offer, DeploymentUtilization, useReleases, Polled, ListReleases, Get, Route, Query,
   useDeploymentStats, DeploymentStats, useDeploymentStatsHistory, DeploymentHistory, useRollback,
   Mutation, Rollback, Queues, useDeleteRelease, DeleteRelease, Changes

LEMMA SettingsTabGated == Gated(SettingsTab)
<1>1. Gated(SourceFields)
  BY DEF Gated, Ungated, UngatedQueries, SourceFields, Together, GitRepoFields, Part, Anyone, Offer,
     ImageSourceFields, useDockerImages, Kept, SystemImages, Get, Route, Query, useDiscoverBranches,
     Mutation, Branches, Changes
<1>2. Gated(Part({useSystemInfo}, OperateButton({useUpdateDeployment, useRenameDeployment})))
  BY DEF Gated, Ungated, UngatedQueries, Part, OperateButton, Offer, useSystemInfo, Kept, Info, Get,
     Route, Query, useUpdateDeployment, Mutation, DeploymentsUpdate, Changes, useRenameDeployment,
     Rename
<1> QED
  BY <1>1, <1>2, Gated2 DEF SettingsTab

LEMMA EnvVarEditorGated == Gated(EnvVarEditor)
BY DEF Gated, Ungated, UngatedQueries, EnvVarEditor, Together, EnvVarDialog, Part, OperateButton,
   Offer, useEnvVars, Query, EnvList, Get, Route, useDeleteEnvVar, Mutation, EnvRemove, Changes,
   useSetEnvVar, EnvSet, useUpdateEnvVarMeta, EnvUpdateMeta

LEMMA ResourcesTabGated == Gated(ResourcesTab)
BY DEF Gated, Ungated, UngatedQueries, ResourcesTab, Together, ResourceForm, Part,
   DeploymentResources, OperateButton, Offer, ComposeServiceResources, useHostResources, Kept,
   Resources, Get, Route, Query, useServiceResources, ServiceResources, useUpdateDeployment,
   Mutation, DeploymentsUpdate, Changes, useUpdateServiceResources, SetServiceResources

LEMMA NetworkingTabGated == Gated(NetworkingTab)
BY DEF Gated, Ungated, UngatedQueries, NetworkingTab, Part, useDeploymentContainers, Polled,
   VolumesList, Get, Route, Query

LEMMA DomainsManagerGated == Gated(DomainsManager)
<1>1. Gated(RouteDialog)
  BY DEF Gated, Ungated, UngatedQueries, RouteDialog, Together, DomainPicker, Part, OperateButton,
     Offer, useSystemInfo, Kept, Info, Get, Route, Query, useSuggestBindingPort, SuggestPortBinding,
     useDnsZones, Zones, useAddDomain, Mutation, AddDomain, Changes, useUpdateDomainTarget,
     UpdateDomainTarget, useAddBinding, AddPortBinding, useUpdateBinding, UpdatePortBinding
<1>2. Gated(Part({useSystemInfo, useDeploymentDomains, useDeploymentContainers, useAppSettings},
        OperateButton({useMakeDomainPrimary, useRemoveDomain, useRemoveBinding,
             useUpdateDomainTarget})))
  BY DEF Gated, Ungated, UngatedQueries, Part, OperateButton, Offer, useSystemInfo, Kept, Info, Get,
     Route, Query, useDeploymentDomains, DomainsList, useDeploymentContainers, Polled, VolumesList,
     useAppSettings, GetSettings, GetAsAdmin, useMakeDomainPrimary, Mutation, MakeDomainPrimary,
     Changes, useRemoveDomain, RemoveDomain, useRemoveBinding, RemovePortBinding,
     useUpdateDomainTarget, UpdateDomainTarget
<1> QED
  BY <1>1, <1>2, Gated2 DEF DomainsManager

LEMMA WebhookTabGated == Gated(WebhookTab)
BY DEF Gated, Ungated, UngatedQueries, WebhookTab, Part, OperateButton, Offer, useWebhook, Query,
   WebhookStatus, Get, Route, useUpdateDeployment, Mutation, DeploymentsUpdate, Changes,
   useRotateWebhook, WebhookRotate

LEMMA HealthTabGated == Gated(HealthTab)
BY DEF Gated, Ungated, UngatedQueries, HealthTab, Together, DeploymentHealth, Part, OperateButton,
   Offer, ComposeServiceHealth, useServiceResources, Query, ServiceResources, Get, Route,
   useUpdateDeployment, Mutation, DeploymentsUpdate, Changes, useUpdateServiceResources,
   SetServiceResources

LEMMA VolumesTabGated == Gated(VolumesTab)
BY DEF Gated, Ungated, UngatedQueries, VolumesTab, Part, Anyone, Offer, useDeploymentContainers,
   Polled, VolumesList, Get, Route, Query, useCreateBackupFor, Mutation, BackupsCreate, Queues,
   useResetVolume, VolumesReset

LEMMA FilesTabGated == Gated(FilesTab)
BY DEF Gated, Ungated, UngatedQueries, FilesTab, Part, OperateButton, Offer, useVolumeIdentities,
   Kept, FilesIdentities, Get, Route, Query, useWriteFile, useFileMutation, FilesWrite, Changes,
   Mutation, useMkdir, FilesMkdir, useMoveFile, FilesMove, useChmod, FilesChmod, useChown,
   FilesChown, useDeleteFile, FilesRemove, useUploadFile, FilesUpload

LEMMA DeploymentBackupsTabGated == Gated(DeploymentBackupsTab)
<1>1. Gated(NewBackupDialog)
  BY DEF Gated, Ungated, UngatedQueries, NewBackupDialog, Part, OperateButton, Offer,
     useDeploymentContainers, Polled, VolumesList, Get, Route, Query, useCreateBackupFor, Mutation,
     BackupsCreate, Queues
<1>2. Gated(BackupSchedules)
  BY DEF Gated, Ungated, UngatedQueries, BackupSchedules, Together, NewScheduleDialog, Part,
     OperateButton, Offer, useBackupSchedules, Query, SchedulesList, Get, Route,
     useDeploymentContainers, Polled, VolumesList, useSetScheduleEnabled, Mutation, SchedulesEnable,
     Changes, useDeleteSchedule, SchedulesRemove, useCreateSchedule, SchedulesCreate
<1>3. Gated(Part({useBackups, useDeploymentTasks, useBackupDestinations},
        OperateButton({useDeleteBackup, useRestoreBackup, usePushBackup})))
  BY DEF Gated, Ungated, UngatedQueries, Part, OperateButton, Offer, useBackups, Polled,
     BackupsList, Get, Route, Query, useDeploymentTasks, TasksList, useBackupDestinations,
     DestinationsList, useDeleteBackup, Mutation, BackupsRemove, Changes, useRestoreBackup,
     BackupsRestore, Queues, usePushBackup, BackupsPush
<1> QED
  BY <1>1, <1>2, <1>3, Gated3 DEF DeploymentBackupsTab

LEMMA MonitoringTabGated == Gated(MonitoringTab)
BY DEF Gated, Ungated, UngatedQueries, MonitoringTab, Part, useDeploymentStatsHistory, Polled,
   DeploymentHistory, Get, Route, Query

LEMMA BuildLogsTabGated == Gated(BuildLogsTab)
BY DEF Gated, Ungated, UngatedQueries, BuildLogsTab, Together, ReleaseSelector, Part, useReleases,
   Polled, ListReleases, Get, Route, Query

LEMMA CronRunsTabGated == Gated(CronRunsTab)
BY DEF Gated, Ungated, UngatedQueries, CronRunsTab, Part, Anyone, Offer, useCronRuns, Polled,
   CronRunHistory, Get, Route, Query, useRunCron, Mutation, CronRun, Changes

LEMMA RuntimeLogsTabGated == Gated(RuntimeLogsTab)
BY DEF Gated, Ungated, UngatedQueries, RuntimeLogsTab, Part

LEMMA UserGeneralTabGated == Gated(UserGeneralTab)
BY DEF Gated, Ungated, UngatedQueries, UserGeneralTab, Part, Anyone, Offer, AdminOnly,
   useUpdateUser, Mutation, UsersUpdate, Changes, Route, useSetUserDisabled, UsersSetDisabled

LEMMA UserSecurityTabGated == Gated(UserSecurityTab)
BY DEF Gated, Ungated, UngatedQueries, UserSecurityTab, Anyone, Offer, AdminOnly, DangerZone, Part,
   useSetUserPassword, Mutation, UsersSetPassword, Changes, Route, useDeleteUser, UsersRemove

LEMMA UserTwoFactorTabGated == Gated(UserTwoFactorTab)
BY DEF Gated, Ungated, UngatedQueries, UserTwoFactorTab, SelfControls, Part, Anyone, Offer,
   AdminOnly, AdminControls, useStartTwoFactor, Mutation, TwoFactorSetup, Changes, Route,
   useConfirmTwoFactor, TwoFactorConfirm, useDisableTwoFactor, TwoFactorDisable,
   useRequireTwoFactor, TwoFactorRequire

LEMMA LoginPageTold == PageTold(LoginPage, {"tasks"})
<1>1. /\ useSystemInfo.route.reads = {"host"}
  BY DEF useSystemInfo, Kept, Info, Get, Route, Query
<1>2. LoginPage.shows \cup LoginPage.admins \subseteq {useSystemInfo}
  BY DEF LoginPage, Part
<1>3. \A o \in LoginPage.does : o.hook \in {}
  BY DEF LoginPage, Part, Offer
<1> QED
  BY <1>1, <1>2, <1>3 DEF PageTold, Told, ChangesData

LEMMA DeploymentsPageTold == PageTold(DeploymentsPage, {"tasks"})
<1>1. Exempt(useDeployments) /\ Exempt(useSystemStats) /\ Exempt(useSystemStatsHistory)
  BY DEF Exempt, NotRefreshed, useDeployments, Polled, Query, useSystemStats, useSystemStatsHistory
<1>2. DeploymentsPage.shows \cup DeploymentsPage.admins \subseteq {useDeployments, useSystemStats,
        useSystemStatsHistory}
  BY DEF DeploymentsPage, Together, DeploymentRow, DeployActions, Part, OperateButton, Offer,
     AdminOnly, SystemUtilization
<1>3. \A o \in DeploymentsPage.does : o.hook \in {useDeploy, useRestart, useStop, useStart,
        useRemoveDeployment}
  BY DEF DeploymentsPage, Together, DeploymentRow, DeployActions, Part, OperateButton, Offer,
     AdminOnly, SystemUtilization
<1> QED
  BY <1>1, <1>2, <1>3 DEF PageTold, Told, ChangesData

LEMMA CreateDeploymentPageTold == PageTold(CreateDeploymentPage, {"tasks"})
<1> DEFINE own == Part({useSystemInfo, useHostResources}, OperateButton({useCreateDeployment}))
<1> HIDE DEF own
<1>1. Exempt(useDockerImages)
  BY DEF Exempt, NotRefreshed, useDockerImages, Kept
<1>2. /\ useSystemInfo.route.reads = {"host"}
      /\ useHostResources.route.reads = {"host"}
      /\ useDnsZones.route.reads = {"zones"}
  BY DEF useSystemInfo, Kept, Info, Get, Route, Query, useHostResources, Resources, useDnsZones,
     Zones
<1>3. /\ useCreateDeployment.route.writes = {"deployment", "state", "domains", "records"}
      /\ useDiscoverBranches.route.writes = {}
  BY DEF useCreateDeployment, Mutation, DeploymentsCreate, Changes, Route, useDiscoverBranches,
     Branches
<1>4. /\ SourceStep.shows \cup SourceStep.admins \subseteq {useDockerImages}
      /\ \A o \in SourceStep.does : o.hook \in {useDiscoverBranches}
  BY DEF SourceStep, SourceFields, Together, GitRepoFields, Part, Anyone, Offer, ImageSourceFields
<1>5. /\ DomainStep.shows \cup DomainStep.admins \subseteq {useDnsZones, useSystemInfo}
      /\ \A o \in DomainStep.does : o.hook \in {}
  BY DEF DomainStep, DomainPicker, Part, Offer
<1>6. /\ own.shows \cup own.admins \subseteq {useSystemInfo, useHostResources}
      /\ \A o \in own.does : o.hook \in {useCreateDeployment}
  BY DEF own, Part, OperateButton, Offer
<1>7. CreateDeploymentPage = Together({SourceStep, DomainStep, own})
  BY DEF CreateDeploymentPage, own
<1>8. /\ Together({SourceStep, DomainStep,
           own}).shows = SourceStep.shows \cup DomainStep.shows \cup own.shows
      /\ Together({SourceStep, DomainStep,
           own}).admins = SourceStep.admins \cup DomainStep.admins \cup own.admins
      /\ Together({SourceStep, DomainStep,
           own}).does = SourceStep.does \cup DomainStep.does \cup own.does
  BY DEF Together
<1>9. /\ CreateDeploymentPage.shows = SourceStep.shows \cup DomainStep.shows \cup own.shows
      /\ CreateDeploymentPage.admins = SourceStep.admins \cup DomainStep.admins \cup own.admins
      /\ CreateDeploymentPage.does = SourceStep.does \cup DomainStep.does \cup own.does
  BY <1>7, <1>8
<1>10. /\ CreateDeploymentPage.shows \cup CreateDeploymentPage.admins \subseteq {useSystemInfo,
            useHostResources, useDockerImages, useDnsZones}
      /\ \A o \in CreateDeploymentPage.does : o.hook \in {useCreateDeployment, useDiscoverBranches}
  BY <1>4, <1>5, <1>6, <1>9
<1> QED
  BY <1>1, <1>2, <1>3, <1>10 DEF PageTold, Told, ChangesData

LEMMA DnsPageTold == PageTold(DnsPage, {"tasks"})
<1>1. /\ useDnsZones.route.reads = {"zones"}
      /\ useDnsRecords.route.reads = {"records"}
      /\ useHostPublicIp.route.reads = {"host"}
  BY DEF useDnsZones, Query, Zones, Get, Route, useDnsRecords, Records, useHostPublicIp, Kept,
     PublicIp
<1>2. /\ useCreateDnsRecord.route.writes = {"records"}
      /\ useDeleteDnsRecord.route.writes = {"records"}
      /\ useRegisterZone.route.writes = {"zones"}
      /\ useUnregisterZone.route.writes = {"zones"}
  BY DEF useCreateDnsRecord, Mutation, CreateRecord, Changes, Route, useDeleteDnsRecord,
     RemoveRecord, useRegisterZone, RegisterZone, useUnregisterZone, UnregisterZone
<1>3. useDnsZones.key = <<"dns", "zones">>
  BY DEF useDnsZones, Query
<1>4. /\ <<"dns", "zones">> \in useRegisterZone.invalidates
      /\ <<"dns", "zones">> \in useUnregisterZone.invalidates
  BY DEF useRegisterZone, Mutation, useUnregisterZone
<1>5. /\ IsPrefix(<<"dns", "zones">>, <<"dns", "zones">>)
  BY Prefix2of2
<1>6. /\ Invalidates(useRegisterZone, useDnsZones)
      /\ Invalidates(useUnregisterZone, useDnsZones)
  BY <1>3, <1>4, <1>5 DEF Invalidates, Matches
<1>7. useDnsRecords.key = <<"dns", "records", "zone">>
  BY DEF useDnsRecords, Query
<1>8. /\ <<"dns", "records", "zone">> \in useCreateDnsRecord.invalidates
      /\ <<"dns", "records", "zone">> \in useDeleteDnsRecord.invalidates
  BY DEF useCreateDnsRecord, Mutation, useDeleteDnsRecord
<1>9. /\ IsPrefix(<<"dns", "records", "zone">>, <<"dns", "records", "zone">>)
  BY Prefix3of3
<1>10. /\ Invalidates(useCreateDnsRecord, useDnsRecords)
      /\ Invalidates(useDeleteDnsRecord, useDnsRecords)
  BY <1>7, <1>8, <1>9 DEF Invalidates, Matches
<1>11. DnsPage.shows \cup DnsPage.admins \subseteq {useDnsZones, useDnsRecords, useHostPublicIp}
  BY DEF DnsPage, Together, ManageZonesDialog, Part, Anyone, Offer, OperateButton
<1>12. \A o \in DnsPage.does : o.hook \in {useCreateDnsRecord, useDeleteDnsRecord, useRegisterZone,
         useUnregisterZone}
  BY DEF DnsPage, Together, ManageZonesDialog, Part, Anyone, Offer, OperateButton
<1> QED
  BY <1>1, <1>2, <1>6, <1>10, <1>11, <1>12 DEF PageTold, Told, ChangesData

LEMMA BackupsPageTold == PageTold(BackupsPage, {"tasks"})
<1>1. /\ useBackupDestinations.route.reads = {"destinations"}
  BY DEF useBackupDestinations, Query, DestinationsList, Get, Route
<1>2. /\ useDeleteDestination.route.writes = {"destinations"}
      /\ useCreateDestination.route.writes = {"destinations"}
  BY DEF useDeleteDestination, Mutation, DestinationsRemove, Changes, Route, useCreateDestination,
     DestinationsCreate
<1>3. useBackupDestinations.key = <<"backups", "destinations">>
  BY DEF useBackupDestinations, Query
<1>4. /\ <<"backups", "destinations">> \in useDeleteDestination.invalidates
      /\ <<"backups", "destinations">> \in useCreateDestination.invalidates
  BY DEF useDeleteDestination, Mutation, useCreateDestination
<1>5. /\ IsPrefix(<<"backups", "destinations">>, <<"backups", "destinations">>)
  BY Prefix2of2
<1>6. /\ Invalidates(useDeleteDestination, useBackupDestinations)
      /\ Invalidates(useCreateDestination, useBackupDestinations)
  BY <1>3, <1>4, <1>5 DEF Invalidates, Matches
<1>7. BackupsPage.shows \cup BackupsPage.admins \subseteq {useBackupDestinations}
  BY DEF BackupsPage, BackupDestinations, Together, NewDestinationDialog, Part, OperateButton, Offer
<1>8. \A o \in BackupsPage.does : o.hook \in {useDeleteDestination, useCreateDestination}
  BY DEF BackupsPage, BackupDestinations, Together, NewDestinationDialog, Part, OperateButton, Offer
<1> QED
  BY <1>1, <1>2, <1>6, <1>7, <1>8 DEF PageTold, Told, ChangesData

LEMMA MonitoringPageTold == PageTold(MonitoringPage, {"tasks"})
<1>1. Exempt(useSystemStatsHistory)
  BY DEF Exempt, NotRefreshed, useSystemStatsHistory, Polled, Query
<1>2. MonitoringPage.shows \cup MonitoringPage.admins \subseteq {useSystemStatsHistory}
  BY DEF MonitoringPage, Part
<1>3. \A o \in MonitoringPage.does : o.hook \in {}
  BY DEF MonitoringPage, Part, Offer
<1> QED
  BY <1>1, <1>2, <1>3 DEF PageTold, Told, ChangesData

LEMMA UsersPageTold == PageTold(UsersPage, {"tasks"})
<1>1. /\ useUsers.route.reads = {"users"}
  BY DEF useUsers, Query, UsersList, GetAsAdmin, Route
<1>2. /\ useCreateUser.route.writes = {"users", "audit"}
  BY DEF useCreateUser, Mutation, UsersCreate, Changes, Route
<1>3. useUsers.key = <<"users">>
  BY DEF useUsers, Query
<1>4. /\ <<"users">> \in useCreateUser.invalidates
  BY DEF useCreateUser, Mutation
<1>5. /\ IsPrefix(<<"users">>, <<"users">>)
  BY Prefix1of1
<1>6. /\ Invalidates(useCreateUser, useUsers)
  BY <1>3, <1>4, <1>5 DEF Invalidates, Matches
<1>7. UsersPage.shows \cup UsersPage.admins \subseteq {useUsers}
  BY DEF UsersPage, Together, NewUserDialog, Part, Anyone, Offer
<1>8. \A o \in UsersPage.does : o.hook \in {useCreateUser}
  BY DEF UsersPage, Together, NewUserDialog, Part, Anyone, Offer
<1> QED
  BY <1>1, <1>2, <1>6, <1>7, <1>8 DEF PageTold, Told, ChangesData

LEMMA ImagesPageTold == PageTold(ImagesPage, {"tasks"})
<1>1. /\ useAppSettings.route.reads = {"settings"}
      /\ useAdminImages.route.reads = {"dockerImages", "containers"}
  BY DEF useAppSettings, Query, GetSettings, GetAsAdmin, Route, useAdminImages, GetImages
<1>2. /\ useDeleteAdminImage.route.writes = {"dockerImages"}
      /\ usePruneImages.route.writes = {"dockerImages", "tasks", "audit"}
  BY DEF useDeleteAdminImage, Mutation, DeleteImage, Changes, Route, usePruneImages, PruneImages
<1>3. useAdminImages.key = <<"admin", "images", "all">>
  BY DEF useAdminImages, Query
<1>4. /\ <<"admin", "images">> \in useDeleteAdminImage.invalidates
      /\ <<"admin", "images">> \in usePruneImages.invalidates
  BY DEF useDeleteAdminImage, Mutation, usePruneImages
<1>5. /\ IsPrefix(<<"admin", "images">>, <<"admin", "images", "all">>)
  BY Prefix2of3
<1>6. /\ Invalidates(useDeleteAdminImage, useAdminImages)
      /\ Invalidates(usePruneImages, useAdminImages)
  BY <1>3, <1>4, <1>5 DEF Invalidates, Matches
<1>7. ImagesPage.shows \cup ImagesPage.admins \subseteq {useAppSettings, useAdminImages}
  BY DEF ImagesPage, Part, Anyone, Offer
<1>8. \A o \in ImagesPage.does : o.hook \in {useDeleteAdminImage, usePruneImages}
  BY DEF ImagesPage, Part, Anyone, Offer
<1> QED
  BY <1>1, <1>2, <1>6, <1>7, <1>8 DEF PageTold, Told, ChangesData

LEMMA ContainersPageTold == PageTold(ContainersPage, {"tasks"})
<1>1. /\ useAppSettings.route.reads = {"settings"}
      /\ useAdminContainers.route.reads = {"containers"}
  BY DEF useAppSettings, Query, GetSettings, GetAsAdmin, Route, useAdminContainers, GetContainers
<1>2. /\ usePruneContainers.route.writes = {"containers", "tasks", "audit"}
  BY DEF usePruneContainers, Mutation, PruneContainers, Changes, Route
<1>3. useAdminContainers.key = <<"admin", "containers", "all">>
  BY DEF useAdminContainers, Query
<1>4. /\ <<"admin", "containers">> \in usePruneContainers.invalidates
  BY DEF usePruneContainers, Mutation
<1>5. /\ IsPrefix(<<"admin", "containers">>, <<"admin", "containers", "all">>)
  BY Prefix2of3
<1>6. /\ Invalidates(usePruneContainers, useAdminContainers)
  BY <1>3, <1>4, <1>5 DEF Invalidates, Matches
<1>7. ContainersPage.shows \cup ContainersPage.admins \subseteq {useAppSettings, useAdminContainers}
  BY DEF ContainersPage, Part, Anyone, Offer
<1>8. \A o \in ContainersPage.does : o.hook \in {usePruneContainers}
  BY DEF ContainersPage, Part, Anyone, Offer
<1> QED
  BY <1>1, <1>2, <1>6, <1>7, <1>8 DEF PageTold, Told, ChangesData

LEMMA AuditPageTold == PageTold(AuditPage, {"tasks"})
<1>1. /\ useAuditLogs.route.reads = {"audit"}
  BY DEF useAuditLogs, Query, AuditList, GetAsAdmin, Route
<1>2. AuditPage.shows \cup AuditPage.admins \subseteq {useAuditLogs}
  BY DEF AuditPage, Part
<1>3. \A o \in AuditPage.does : o.hook \in {}
  BY DEF AuditPage, Part, Offer
<1> QED
  BY <1>1, <1>2, <1>3 DEF PageTold, Told, ChangesData

LEMMA SettingsPageTold == PageTold(SettingsPage, {"tasks"})
<1>1. /\ useAppSettings.route.reads = {"settings"}
  BY DEF useAppSettings, Query, GetSettings, GetAsAdmin, Route
<1>2. /\ useUpdateAppSettings.route.writes = {"settings", "audit"}
  BY DEF useUpdateAppSettings, Mutation, UpdateSettings, Changes, Route
<1>3. useAppSettings.key = <<"admin", "settings">>
  BY DEF useAppSettings, Query
<1>4. /\ <<"admin", "settings">> \in useUpdateAppSettings.invalidates
  BY DEF useUpdateAppSettings, Mutation
<1>5. /\ IsPrefix(<<"admin", "settings">>, <<"admin", "settings">>)
  BY Prefix2of2
<1>6. /\ Invalidates(useUpdateAppSettings, useAppSettings)
  BY <1>3, <1>4, <1>5 DEF Invalidates, Matches
<1>7. SettingsPage.shows \cup SettingsPage.admins \subseteq {useAppSettings}
  BY DEF SettingsPage, Together, PortBindingSetting, Part, Anyone, Offer
<1>8. \A o \in SettingsPage.does : o.hook \in {useUpdateAppSettings}
  BY DEF SettingsPage, Together, PortBindingSetting, Part, Anyone, Offer
<1> QED
  BY <1>1, <1>2, <1>6, <1>7, <1>8 DEF PageTold, Told, ChangesData

LEMMA OverviewTabTold == PageTold(OverviewTab, Bar)
<1>1. Exempt(useReleases) /\ Exempt(useDeploymentStats) /\ Exempt(useDeploymentStatsHistory)
  BY DEF Exempt, NotRefreshed, useReleases, Polled, Query, useDeploymentStats,
     useDeploymentStatsHistory
<1>2. OverviewTab.shows \cup OverviewTab.admins \subseteq {useReleases, useDeploymentStats,
        useDeploymentStatsHistory}
  BY DEF OverviewTab, Together, ReleasesGrid, Part, OperateButton, Offer, DeploymentUtilization
<1>3. \A o \in OverviewTab.does : o.hook \in {useRollback, useDeleteRelease}
  BY DEF OverviewTab, Together, ReleasesGrid, Part, OperateButton, Offer, DeploymentUtilization
<1> QED
  BY <1>1, <1>2, <1>3 DEF PageTold, Told, ChangesData, Bar

LEMMA SettingsTabTold == PageTold(SettingsTab, Bar)
<1> DEFINE own == Part({useSystemInfo}, OperateButton({useUpdateDeployment, useRenameDeployment}))
<1> HIDE DEF own
<1>1. Exempt(useDockerImages)
  BY DEF Exempt, NotRefreshed, useDockerImages, Kept
<1>2. /\ useSystemInfo.route.reads = {"host"}
  BY DEF useSystemInfo, Kept, Info, Get, Route, Query
<1>3. /\ useUpdateDeployment.route.writes = {"deployment", "domains"}
      /\ useRenameDeployment.route.writes = {"deployment", "audit"}
      /\ useDiscoverBranches.route.writes = {}
  BY DEF useUpdateDeployment, Mutation, DeploymentsUpdate, Changes, Route, useRenameDeployment,
     Rename, useDiscoverBranches, Branches
<1>4. /\ SourceFields.shows \cup SourceFields.admins \subseteq {useDockerImages}
      /\ \A o \in SourceFields.does : o.hook \in {useDiscoverBranches}
  BY DEF SourceFields, Together, GitRepoFields, Part, Anyone, Offer, ImageSourceFields
<1>5. /\ own.shows \cup own.admins \subseteq {useSystemInfo}
      /\ \A o \in own.does : o.hook \in {useUpdateDeployment, useRenameDeployment}
  BY DEF own, Part, OperateButton, Offer
<1>6. SettingsTab = Together({SourceFields, own})
  BY DEF SettingsTab, own
<1>7. /\ Together({SourceFields, own}).shows = SourceFields.shows \cup own.shows
      /\ Together({SourceFields, own}).admins = SourceFields.admins \cup own.admins
      /\ Together({SourceFields, own}).does = SourceFields.does \cup own.does
  BY DEF Together
<1>8. /\ SettingsTab.shows = SourceFields.shows \cup own.shows
      /\ SettingsTab.admins = SourceFields.admins \cup own.admins
      /\ SettingsTab.does = SourceFields.does \cup own.does
  BY <1>6, <1>7
<1>9. /\ SettingsTab.shows \cup SettingsTab.admins \subseteq {useSystemInfo, useDockerImages}
      /\ \A o \in SettingsTab.does : o.hook \in {useUpdateDeployment, useRenameDeployment,
           useDiscoverBranches}
  BY <1>4, <1>5, <1>8
<1> QED
  BY <1>1, <1>2, <1>3, <1>9 DEF PageTold, Told, ChangesData, Bar

LEMMA EnvVarEditorTold == PageTold(EnvVarEditor, Bar)
<1>1. /\ useEnvVars.route.reads = {"env"}
  BY DEF useEnvVars, Query, EnvList, Get, Route
<1>2. /\ useDeleteEnvVar.route.writes = {"env", "audit"}
      /\ useSetEnvVar.route.writes = {"env", "audit"}
      /\ useUpdateEnvVarMeta.route.writes = {"env", "audit"}
  BY DEF useDeleteEnvVar, Mutation, EnvRemove, Changes, Route, useSetEnvVar, EnvSet,
     useUpdateEnvVarMeta, EnvUpdateMeta
<1>3. useEnvVars.key = <<"deployments", "id", "env">> \o <<"service">>
  BY DEF useEnvVars, Query, env
<1>4. /\ <<"deployments", "id", "env">> \o <<"service">> \in useDeleteEnvVar.invalidates
      /\ <<"deployments", "id", "env">> \o <<"service">> \in useSetEnvVar.invalidates
      /\ <<"deployments", "id", "env">> \o <<"service">> \in useUpdateEnvVarMeta.invalidates
  BY DEF useDeleteEnvVar, Mutation, env, useSetEnvVar, useUpdateEnvVarMeta
<1>5. /\ IsPrefix(<<"deployments", "id", "env">> \o <<"service">>,
           <<"deployments", "id", "env">> \o <<"service">>)
  BY PrefixAppended
<1>6. /\ Invalidates(useDeleteEnvVar, useEnvVars)
      /\ Invalidates(useSetEnvVar, useEnvVars)
      /\ Invalidates(useUpdateEnvVarMeta, useEnvVars)
  BY <1>3, <1>4, <1>5 DEF Invalidates, Matches
<1>7. EnvVarEditor.shows \cup EnvVarEditor.admins \subseteq {useEnvVars}
  BY DEF EnvVarEditor, Together, EnvVarDialog, Part, OperateButton, Offer
<1>8. \A o \in EnvVarEditor.does : o.hook \in {useDeleteEnvVar, useSetEnvVar, useUpdateEnvVarMeta}
  BY DEF EnvVarEditor, Together, EnvVarDialog, Part, OperateButton, Offer
<1> QED
  BY <1>1, <1>2, <1>6, <1>7, <1>8 DEF PageTold, Told, ChangesData, Bar

LEMMA ResourcesTabTold == PageTold(ResourcesTab, Bar)
<1>1. /\ useHostResources.route.reads = {"host"}
      /\ useServiceResources.route.reads = {"deployment"}
  BY DEF useHostResources, Kept, Resources, Get, Route, Query, useServiceResources, ServiceResources
<1>2. /\ useUpdateDeployment.route.writes = {"deployment", "domains"}
      /\ useUpdateServiceResources.route.writes = {"deployment"}
  BY DEF useUpdateDeployment, Mutation, DeploymentsUpdate, Changes, Route,
     useUpdateServiceResources, SetServiceResources
<1>3. useServiceResources.key = <<"deployments", "id", "services", "service", "resources">>
  BY DEF useServiceResources, Query
<1>4. /\ <<"deployments", "id">> \in useUpdateDeployment.invalidates
      /\ <<"deployments", "id", "services", "service",
           "resources">> \in useUpdateServiceResources.invalidates
  BY DEF useUpdateDeployment, Mutation, deployment, deployments, useUpdateServiceResources
<1>5. /\ IsPrefix(<<"deployments", "id">>,
           <<"deployments", "id", "services", "service", "resources">>)
      /\ IsPrefix(<<"deployments", "id", "services", "service", "resources">>,
           <<"deployments", "id", "services", "service", "resources">>)
  BY Prefix2of5, Prefix5of5
<1>6. /\ Invalidates(useUpdateDeployment, useServiceResources)
      /\ Invalidates(useUpdateServiceResources, useServiceResources)
  BY <1>3, <1>4, <1>5 DEF Invalidates, Matches
<1>7. ResourcesTab.shows \cup ResourcesTab.admins \subseteq {useHostResources, useServiceResources}
  BY DEF ResourcesTab, Together, ResourceForm, Part, DeploymentResources, OperateButton, Offer,
     ComposeServiceResources
<1>8. \A o \in ResourcesTab.does : o.hook \in {useUpdateDeployment, useUpdateServiceResources}
  BY DEF ResourcesTab, Together, ResourceForm, Part, DeploymentResources, OperateButton, Offer,
     ComposeServiceResources
<1> QED
  BY <1>1, <1>2, <1>6, <1>7, <1>8 DEF PageTold, Told, ChangesData, Bar

LEMMA NetworkingTabTold == PageTold(NetworkingTab, Bar)
<1>1. Exempt(useDeploymentContainers)
  BY DEF Exempt, NotRefreshed, useDeploymentContainers, Polled, Query
<1>2. NetworkingTab.shows \cup NetworkingTab.admins \subseteq {useDeploymentContainers}
  BY DEF NetworkingTab, Part
<1>3. \A o \in NetworkingTab.does : o.hook \in {}
  BY DEF NetworkingTab, Part, Offer
<1> QED
  BY <1>1, <1>2, <1>3 DEF PageTold, Told, ChangesData, Bar

LEMMA DomainsManagerTold == PageTold(DomainsManager, Bar)
<1> DEFINE own == Part({useSystemInfo, useDeploymentDomains, useDeploymentContainers,
      useAppSettings}, OperateButton({useMakeDomainPrimary, useRemoveDomain, useRemoveBinding,
           useUpdateDomainTarget}))
<1> HIDE DEF own
<1>1. Exempt(useDeploymentContainers)
  BY DEF Exempt, NotRefreshed, useDeploymentContainers, Polled, Query
<1>2. /\ useSystemInfo.route.reads = {"host"}
      /\ useDeploymentDomains.route.reads = {"domains"}
      /\ useAppSettings.route.reads = {"settings"}
      /\ useSuggestBindingPort.route.reads = {"ports", "settings"}
      /\ useDnsZones.route.reads = {"zones"}
  BY DEF useSystemInfo, Kept, Info, Get, Route, Query, useDeploymentDomains, DomainsList,
     useAppSettings, GetSettings, GetAsAdmin, useSuggestBindingPort, SuggestPortBinding,
     useDnsZones, Zones
<1>3. /\ useMakeDomainPrimary.route.writes = {"domains"}
      /\ useRemoveDomain.route.writes = {"domains", "ports", "records"}
      /\ useRemoveBinding.route.writes = {"domains", "ports"}
      /\ useUpdateDomainTarget.route.writes = {"domains"}
      /\ useAddDomain.route.writes = {"domains", "records"}
      /\ useAddBinding.route.writes = {"domains", "ports"}
      /\ useUpdateBinding.route.writes = {"domains", "ports"}
  BY DEF useMakeDomainPrimary, Mutation, MakeDomainPrimary, Changes, Route, useRemoveDomain,
     RemoveDomain, useRemoveBinding, RemovePortBinding, useUpdateDomainTarget, UpdateDomainTarget,
     useAddDomain, AddDomain, useAddBinding, AddPortBinding, useUpdateBinding, UpdatePortBinding
<1>4. useDeploymentDomains.key = <<"deployments", "id", "domains">>
  BY DEF useDeploymentDomains, Query
<1>5. /\ <<"deployments", "id", "domains">> \in useMakeDomainPrimary.invalidates
      /\ <<"deployments", "id", "domains">> \in useRemoveDomain.invalidates
      /\ <<"deployments", "id", "domains">> \in useRemoveBinding.invalidates
      /\ <<"deployments", "id", "domains">> \in useUpdateDomainTarget.invalidates
      /\ <<"deployments", "id", "domains">> \in useAddDomain.invalidates
      /\ <<"deployments", "id", "domains">> \in useAddBinding.invalidates
      /\ <<"deployments", "id", "domains">> \in useUpdateBinding.invalidates
  BY DEF useMakeDomainPrimary, Mutation, invalidateDomains, deployment, deployments,
     useRemoveDomain, useRemoveBinding, useUpdateDomainTarget, useAddDomain, useAddBinding,
     useUpdateBinding
<1>6. /\ IsPrefix(<<"deployments", "id", "domains">>, <<"deployments", "id", "domains">>)
  BY Prefix3of3
<1>7. /\ Invalidates(useMakeDomainPrimary, useDeploymentDomains)
      /\ Invalidates(useRemoveDomain, useDeploymentDomains)
      /\ Invalidates(useRemoveBinding, useDeploymentDomains)
      /\ Invalidates(useUpdateDomainTarget, useDeploymentDomains)
      /\ Invalidates(useAddDomain, useDeploymentDomains)
      /\ Invalidates(useAddBinding, useDeploymentDomains)
      /\ Invalidates(useUpdateBinding, useDeploymentDomains)
  BY <1>4, <1>5, <1>6 DEF Invalidates, Matches
<1>8. useSuggestBindingPort.key = <<"deployments", "id", "domains", "domain", "bindings",
        "suggest">>
  BY DEF useSuggestBindingPort, Query
<1>9. /\ <<"deployments", "id", "domains">> \in useRemoveDomain.invalidates
      /\ <<"deployments", "id", "domains">> \in useRemoveBinding.invalidates
      /\ <<"deployments", "id", "domains">> \in useAddBinding.invalidates
      /\ <<"deployments", "id", "domains">> \in useUpdateBinding.invalidates
  BY DEF useRemoveDomain, Mutation, invalidateDomains, deployment, deployments, useRemoveBinding,
     useAddBinding, useUpdateBinding
<1>10. /\ IsPrefix(<<"deployments", "id", "domains">>,
            <<"deployments", "id", "domains", "domain", "bindings", "suggest">>)
  BY Prefix3of6
<1>11. /\ Invalidates(useRemoveDomain, useSuggestBindingPort)
      /\ Invalidates(useRemoveBinding, useSuggestBindingPort)
      /\ Invalidates(useAddBinding, useSuggestBindingPort)
      /\ Invalidates(useUpdateBinding, useSuggestBindingPort)
  BY <1>8, <1>9, <1>10 DEF Invalidates, Matches
<1>12. /\ RouteDialog.shows \cup RouteDialog.admins \subseteq {useSystemInfo,
            useSuggestBindingPort, useDnsZones}
      /\ \A o \in RouteDialog.does : o.hook \in {useAddDomain, useUpdateDomainTarget,
           useAddBinding, useUpdateBinding}
  BY DEF RouteDialog, Together, DomainPicker, Part, OperateButton, Offer
<1>13. /\ own.shows \cup own.admins \subseteq {useSystemInfo, useDeploymentDomains,
            useDeploymentContainers, useAppSettings}
      /\ \A o \in own.does : o.hook \in {useMakeDomainPrimary, useRemoveDomain, useRemoveBinding,
           useUpdateDomainTarget}
  BY DEF own, Part, OperateButton, Offer
<1>14. DomainsManager = Together({RouteDialog, own})
  BY DEF DomainsManager, own
<1>15. /\ Together({RouteDialog, own}).shows = RouteDialog.shows \cup own.shows
      /\ Together({RouteDialog, own}).admins = RouteDialog.admins \cup own.admins
      /\ Together({RouteDialog, own}).does = RouteDialog.does \cup own.does
  BY DEF Together
<1>16. /\ DomainsManager.shows = RouteDialog.shows \cup own.shows
      /\ DomainsManager.admins = RouteDialog.admins \cup own.admins
      /\ DomainsManager.does = RouteDialog.does \cup own.does
  BY <1>14, <1>15
<1>17. /\ DomainsManager.shows \cup DomainsManager.admins \subseteq {useSystemInfo,
            useDeploymentDomains, useDeploymentContainers, useAppSettings, useSuggestBindingPort,
                 useDnsZones}
      /\ \A o \in DomainsManager.does : o.hook \in {useMakeDomainPrimary, useRemoveDomain,
           useRemoveBinding, useUpdateDomainTarget, useAddDomain, useAddBinding, useUpdateBinding}
  BY <1>12, <1>13, <1>16
<1> QED
  BY <1>1, <1>2, <1>3, <1>7, <1>11, <1>17 DEF PageTold, Told, ChangesData, Bar

LEMMA WebhookTabTold == PageTold(WebhookTab, Bar)
<1>1. /\ useWebhook.route.reads = {"webhook"}
  BY DEF useWebhook, Query, WebhookStatus, Get, Route
<1>2. /\ useUpdateDeployment.route.writes = {"deployment", "domains"}
      /\ useRotateWebhook.route.writes = {"webhook", "audit"}
  BY DEF useUpdateDeployment, Mutation, DeploymentsUpdate, Changes, Route, useRotateWebhook,
     WebhookRotate
<1>3. useWebhook.key = <<"deployments", "id", "webhook">>
  BY DEF useWebhook, Query, webhook
<1>4. /\ <<"deployments", "id", "webhook">> \in useRotateWebhook.invalidates
  BY DEF useRotateWebhook, Mutation, webhook
<1>5. /\ IsPrefix(<<"deployments", "id", "webhook">>, <<"deployments", "id", "webhook">>)
  BY Prefix3of3
<1>6. /\ Invalidates(useRotateWebhook, useWebhook)
  BY <1>3, <1>4, <1>5 DEF Invalidates, Matches
<1>7. WebhookTab.shows \cup WebhookTab.admins \subseteq {useWebhook}
  BY DEF WebhookTab, Part, OperateButton, Offer
<1>8. \A o \in WebhookTab.does : o.hook \in {useUpdateDeployment, useRotateWebhook}
  BY DEF WebhookTab, Part, OperateButton, Offer
<1> QED
  BY <1>1, <1>2, <1>6, <1>7, <1>8 DEF PageTold, Told, ChangesData, Bar

LEMMA HealthTabTold == PageTold(HealthTab, Bar)
<1>1. /\ useServiceResources.route.reads = {"deployment"}
  BY DEF useServiceResources, Query, ServiceResources, Get, Route
<1>2. /\ useUpdateDeployment.route.writes = {"deployment", "domains"}
      /\ useUpdateServiceResources.route.writes = {"deployment"}
  BY DEF useUpdateDeployment, Mutation, DeploymentsUpdate, Changes, Route,
     useUpdateServiceResources, SetServiceResources
<1>3. useServiceResources.key = <<"deployments", "id", "services", "service", "resources">>
  BY DEF useServiceResources, Query
<1>4. /\ <<"deployments", "id">> \in useUpdateDeployment.invalidates
      /\ <<"deployments", "id", "services", "service",
           "resources">> \in useUpdateServiceResources.invalidates
  BY DEF useUpdateDeployment, Mutation, deployment, deployments, useUpdateServiceResources
<1>5. /\ IsPrefix(<<"deployments", "id">>,
           <<"deployments", "id", "services", "service", "resources">>)
      /\ IsPrefix(<<"deployments", "id", "services", "service", "resources">>,
           <<"deployments", "id", "services", "service", "resources">>)
  BY Prefix2of5, Prefix5of5
<1>6. /\ Invalidates(useUpdateDeployment, useServiceResources)
      /\ Invalidates(useUpdateServiceResources, useServiceResources)
  BY <1>3, <1>4, <1>5 DEF Invalidates, Matches
<1>7. HealthTab.shows \cup HealthTab.admins \subseteq {useServiceResources}
  BY DEF HealthTab, Together, DeploymentHealth, Part, OperateButton, Offer, ComposeServiceHealth
<1>8. \A o \in HealthTab.does : o.hook \in {useUpdateDeployment, useUpdateServiceResources}
  BY DEF HealthTab, Together, DeploymentHealth, Part, OperateButton, Offer, ComposeServiceHealth
<1> QED
  BY <1>1, <1>2, <1>6, <1>7, <1>8 DEF PageTold, Told, ChangesData, Bar

LEMMA VolumesTabTold == PageTold(VolumesTab, Bar)
<1>1. Exempt(useDeploymentContainers)
  BY DEF Exempt, NotRefreshed, useDeploymentContainers, Polled, Query
<1>2. VolumesTab.shows \cup VolumesTab.admins \subseteq {useDeploymentContainers}
  BY DEF VolumesTab, Part, Anyone, Offer
<1>3. \A o \in VolumesTab.does : o.hook \in {useCreateBackupFor, useResetVolume}
  BY DEF VolumesTab, Part, Anyone, Offer
<1> QED
  BY <1>1, <1>2, <1>3 DEF PageTold, Told, ChangesData, Bar

LEMMA FilesTabTold == PageTold(FilesTab, Bar)
<1>1. Exempt(useVolumeIdentities)
  BY DEF Exempt, NotRefreshed, useVolumeIdentities, Kept
<1>2. FilesTab.shows \cup FilesTab.admins \subseteq {useVolumeIdentities}
  BY DEF FilesTab, Part, OperateButton, Offer
<1>3. \A o \in FilesTab.does : o.hook \in {useWriteFile, useMkdir, useMoveFile, useChmod, useChown,
        useDeleteFile, useUploadFile}
  BY DEF FilesTab, Part, OperateButton, Offer
<1> QED
  BY <1>1, <1>2, <1>3 DEF PageTold, Told, ChangesData, Bar

LEMMA DeploymentBackupsTabTold == PageTold(DeploymentBackupsTab, Bar)
<1> DEFINE own == Part({useBackups, useDeploymentTasks, useBackupDestinations},
      OperateButton({useDeleteBackup, useRestoreBackup, usePushBackup}))
<1> HIDE DEF own
<1>1. Exempt(useBackups) /\ Exempt(useDeploymentTasks) /\ Exempt(useDeploymentContainers)
  BY DEF Exempt, NotRefreshed, useBackups, Polled, Query, useDeploymentTasks,
     useDeploymentContainers
<1>2. /\ useBackupDestinations.route.reads = {"destinations"}
      /\ useBackupSchedules.route.reads = {"schedules"}
  BY DEF useBackupDestinations, Query, DestinationsList, Get, Route, useBackupSchedules,
     SchedulesList
<1>3. /\ useDeleteBackup.route.writes = {"backups", "tasks"}
      /\ useRestoreBackup.route.writes = {"tasks", "audit"}
      /\ usePushBackup.route.writes = {"tasks", "audit"}
      /\ useCreateBackupFor.route.writes = {"backups", "tasks", "audit"}
      /\ useSetScheduleEnabled.route.writes = {"schedules"}
      /\ useDeleteSchedule.route.writes = {"schedules"}
      /\ useCreateSchedule.route.writes = {"schedules"}
  BY DEF useDeleteBackup, Mutation, BackupsRemove, Changes, Route, useRestoreBackup, BackupsRestore,
     Queues, usePushBackup, BackupsPush, useCreateBackupFor, BackupsCreate, useSetScheduleEnabled,
     SchedulesEnable, useDeleteSchedule, SchedulesRemove, useCreateSchedule, SchedulesCreate
<1>4. useBackupSchedules.key = <<"backups", "schedules", "deployment", "id">>
  BY DEF useBackupSchedules, Query
<1>5. /\ <<"backups", "schedules">> \in useSetScheduleEnabled.invalidates
      /\ <<"backups", "schedules">> \in useDeleteSchedule.invalidates
      /\ <<"backups", "schedules">> \in useCreateSchedule.invalidates
  BY DEF useSetScheduleEnabled, Mutation, useDeleteSchedule, useCreateSchedule
<1>6. /\ IsPrefix(<<"backups", "schedules">>, <<"backups", "schedules", "deployment", "id">>)
  BY Prefix2of4
<1>7. /\ Invalidates(useSetScheduleEnabled, useBackupSchedules)
      /\ Invalidates(useDeleteSchedule, useBackupSchedules)
      /\ Invalidates(useCreateSchedule, useBackupSchedules)
  BY <1>4, <1>5, <1>6 DEF Invalidates, Matches
<1>8. /\ NewBackupDialog.shows \cup NewBackupDialog.admins \subseteq {useDeploymentContainers}
      /\ \A o \in NewBackupDialog.does : o.hook \in {useCreateBackupFor}
  BY DEF NewBackupDialog, Part, OperateButton, Offer
<1>9. /\ BackupSchedules.shows \cup BackupSchedules.admins \subseteq {useBackupSchedules,
           useDeploymentContainers}
      /\ \A o \in BackupSchedules.does : o.hook \in {useSetScheduleEnabled, useDeleteSchedule,
           useCreateSchedule}
  BY DEF BackupSchedules, Together, NewScheduleDialog, Part, OperateButton, Offer
<1>10. /\ own.shows \cup own.admins \subseteq {useBackups, useDeploymentTasks,
            useBackupDestinations}
      /\ \A o \in own.does : o.hook \in {useDeleteBackup, useRestoreBackup, usePushBackup}
  BY DEF own, Part, OperateButton, Offer
<1>11. DeploymentBackupsTab = Together({NewBackupDialog, BackupSchedules, own})
  BY DEF DeploymentBackupsTab, own
<1>12. /\ Together({NewBackupDialog, BackupSchedules,
            own}).shows = NewBackupDialog.shows \cup BackupSchedules.shows \cup own.shows
      /\ Together({NewBackupDialog, BackupSchedules,
           own}).admins = NewBackupDialog.admins \cup BackupSchedules.admins \cup own.admins
      /\ Together({NewBackupDialog, BackupSchedules,
           own}).does = NewBackupDialog.does \cup BackupSchedules.does \cup own.does
  BY DEF Together
<1>13. /\ DeploymentBackupsTab.shows = NewBackupDialog.shows \cup BackupSchedules.shows \cup own.shows
      /\ DeploymentBackupsTab.admins = NewBackupDialog.admins \cup BackupSchedules.admins \cup own.admins
      /\ DeploymentBackupsTab.does = NewBackupDialog.does \cup BackupSchedules.does \cup own.does
  BY <1>11, <1>12
<1>14. /\ DeploymentBackupsTab.shows \cup DeploymentBackupsTab.admins \subseteq {useBackups,
            useDeploymentTasks, useBackupDestinations, useDeploymentContainers, useBackupSchedules}
      /\ \A o \in DeploymentBackupsTab.does : o.hook \in {useDeleteBackup, useRestoreBackup,
           usePushBackup, useCreateBackupFor, useSetScheduleEnabled, useDeleteSchedule,
                useCreateSchedule}
  BY <1>8, <1>9, <1>10, <1>13
<1> QED
  BY <1>1, <1>2, <1>3, <1>7, <1>14 DEF PageTold, Told, ChangesData, Bar

LEMMA MonitoringTabTold == PageTold(MonitoringTab, Bar)
<1>1. Exempt(useDeploymentStatsHistory)
  BY DEF Exempt, NotRefreshed, useDeploymentStatsHistory, Polled, Query
<1>2. MonitoringTab.shows \cup MonitoringTab.admins \subseteq {useDeploymentStatsHistory}
  BY DEF MonitoringTab, Part
<1>3. \A o \in MonitoringTab.does : o.hook \in {}
  BY DEF MonitoringTab, Part, Offer
<1> QED
  BY <1>1, <1>2, <1>3 DEF PageTold, Told, ChangesData, Bar

LEMMA BuildLogsTabTold == PageTold(BuildLogsTab, Bar)
<1>1. Exempt(useReleases)
  BY DEF Exempt, NotRefreshed, useReleases, Polled, Query
<1>2. BuildLogsTab.shows \cup BuildLogsTab.admins \subseteq {useReleases}
  BY DEF BuildLogsTab, Together, ReleaseSelector, Part
<1>3. \A o \in BuildLogsTab.does : o.hook \in {}
  BY DEF BuildLogsTab, Together, ReleaseSelector, Part, Offer
<1> QED
  BY <1>1, <1>2, <1>3 DEF PageTold, Told, ChangesData, Bar

LEMMA CronRunsTabTold == PageTold(CronRunsTab, Bar)
<1>1. Exempt(useCronRuns)
  BY DEF Exempt, NotRefreshed, useCronRuns, Polled, Query
<1>2. CronRunsTab.shows \cup CronRunsTab.admins \subseteq {useCronRuns}
  BY DEF CronRunsTab, Part, Anyone, Offer
<1>3. \A o \in CronRunsTab.does : o.hook \in {useRunCron}
  BY DEF CronRunsTab, Part, Anyone, Offer
<1> QED
  BY <1>1, <1>2, <1>3 DEF PageTold, Told, ChangesData, Bar

LEMMA RuntimeLogsTabTold == PageTold(RuntimeLogsTab, Bar)
<1>1. RuntimeLogsTab.shows \cup RuntimeLogsTab.admins \subseteq {}
  BY DEF RuntimeLogsTab, Part
<1>2. \A o \in RuntimeLogsTab.does : o.hook \in {}
  BY DEF RuntimeLogsTab, Part, Offer
<1> QED
  BY <1>1, <1>2 DEF PageTold, Told, ChangesData, Bar

LEMMA ShellParts ==
  /\ AppShell.shows \cup AppShell.admins \subseteq {useTasks, useAuth}
  /\ \A o \in AppShell.does : o.hook \in {useClearTask, useClearTasks}
  /\ Exempt(useTasks) /\ Exempt(useAuth)
  /\ useClearTask.route.writes = {"tasks"} /\ useClearTasks.route.writes = {"tasks"}
<1>1. /\ AppShell.shows \cup AppShell.admins \subseteq {useTasks, useAuth}
      /\ \A o \in AppShell.does : o.hook \in {useClearTask, useClearTasks}
  <2>1. /\ ActivityMenu.shows \cup ActivityMenu.admins \subseteq {useTasks}
        /\ \A o \in ActivityMenu.does : o.hook \in {useClearTask, useClearTasks}
    BY DEF ActivityMenu, TaskRow, Together, Part, Anyone, Offer
  <2>2. AccountMenu.shows = {useAuth} /\ AccountMenu.admins = {} /\ AccountMenu.does = {}
    BY DEF AccountMenu, Part
  <2> QED
    BY <2>1, <2>2, Together2 DEF AppShell
<1>2. Exempt(useTasks) /\ Exempt(useAuth)
  BY DEF Exempt, NotRefreshed, useTasks, Polled, Query
<1>3. useClearTask.route.writes = {"tasks"} /\ useClearTasks.route.writes = {"tasks"}
  BY DEF useClearTask, Mutation, TasksClear, Changes, Route, useClearTasks, TasksClearAll
<1> QED
  BY <1>1, <1>2, <1>3

LEMMA ShellTold ==
  ASSUME NEW p, PageTold(p, {"tasks"})
  PROVE  PageTold(Together({AppShell, p}), {})
<1>1. /\ Together({AppShell, p}).shows = AppShell.shows \cup p.shows
      /\ Together({AppShell, p}).admins = AppShell.admins \cup p.admins
      /\ Together({AppShell, p}).does = AppShell.does \cup p.does
  BY Together2
<1> QED
  BY <1>1, ShellParts DEF PageTold, Told, ChangesData

LEMMA BarParts ==
  /\ DeploymentDetailPage.shows \cup DeploymentDetailPage.admins \subseteq {useDeployment,
       useDeploymentContainers}
  /\ \A o \in DeploymentDetailPage.does : o.hook \in {useDeploy, useRestart, useStop, useStart,
       useRemoveDeployment}
  /\ Exempt(useDeployment) /\ Exempt(useDeploymentContainers)
  /\ \A m \in {useDeploy, useRestart, useStop, useStart} : m.route.writes \subseteq Bar
<1>1. /\ DeploymentDetailPage.shows \cup DeploymentDetailPage.admins \subseteq {useDeployment,
           useDeploymentContainers}
      /\ \A o \in DeploymentDetailPage.does : o.hook \in {useDeploy, useRestart, useStop, useStart,
           useRemoveDeployment}
  BY DEF DeploymentDetailPage, Together, DeployActions, Part, OperateButton, Offer, AdminOnly
<1>2. Exempt(useDeployment) /\ Exempt(useDeploymentContainers)
  BY DEF Exempt, useDeployment, useDeploymentContainers, Polled, Query
<1>3. \A m \in {useDeploy, useRestart, useStop, useStart} : m.route.writes \subseteq Bar
  BY DEF Bar, useDeploy, Mutation, Deploy, Queues, Route, useRestart, Restart, Start, useStop, Stop,
     useStart
<1> QED
  BY <1>1, <1>2, <1>3

LEMMA DeploymentTold ==
  ASSUME NEW p, PageTold(p, Bar)
  PROVE  PageTold(Together({AppShell, DeploymentDetailPage, p}), {})
<1> DEFINE s == Together({AppShell, DeploymentDetailPage, p})
<1>1. /\ s.shows = AppShell.shows \cup DeploymentDetailPage.shows \cup p.shows
      /\ s.admins = AppShell.admins \cup DeploymentDetailPage.admins \cup p.admins
      /\ s.does = AppShell.does \cup DeploymentDetailPage.does \cup p.does
  BY DEF Together
<1> HIDE DEF s
<1>2. ASSUME NEW o \in s.does
      PROVE  \/ o \in p.does \/ o.hook = useRemoveDeployment
             \/ o.hook.route.writes \subseteq Bar
  BY <1>1, ShellParts, BarParts DEF Bar
<1>3. ASSUME NEW q \in s.shows \cup s.admins
      PROVE  Exempt(q) \/ q \in p.shows \cup p.admins
  BY <1>1, ShellParts, BarParts
<1>4. ASSUME NEW q \in s.shows \cup s.admins, NEW o \in s.does
      PROVE  Told(o.hook, q)
  BY <1>2, <1>3 DEF PageTold, Told, ChangesData
<1>5. PageTold(s, {})
  BY <1>4 DEF PageTold
<1> QED
  BY <1>5 DEF s

LEMMA UserHooksTold ==
  \A m \in {useUpdateUser, useSetUserDisabled, useSetUserPassword, useDeleteUser,
       useStartTwoFactor, useConfirmTwoFactor, useDisableTwoFactor, useRequireTwoFactor} : Told(m,
            useUser)
<1>1. useUser.key = <<"users", "id">>
  BY DEF useUser, Query
<1>2. IsPrefix(<<"users">>, <<"users", "id">>) /\ IsPrefix(<<"users", "id">>, <<"users", "id">>)
  BY Prefix1of2, Prefix2of2
<1>3. /\ <<"users">> \in useUpdateUser.invalidates
      /\ <<"users">> \in useSetUserDisabled.invalidates
      /\ <<"users", "id">> \in useSetUserPassword.invalidates
      /\ <<"users">> \in useDeleteUser.invalidates
      /\ <<"users">> \in useConfirmTwoFactor.invalidates
      /\ <<"users">> \in useDisableTwoFactor.invalidates
      /\ <<"users">> \in useRequireTwoFactor.invalidates
  BY DEF useUpdateUser, Mutation, useSetUserDisabled, useSetUserPassword, useDeleteUser,
     useConfirmTwoFactor, invalidateUser, useDisableTwoFactor, useRequireTwoFactor
<1>4. /\ Invalidates(useUpdateUser, useUser)
      /\ Invalidates(useSetUserDisabled, useUser)
      /\ Invalidates(useSetUserPassword, useUser)
      /\ Invalidates(useDeleteUser, useUser)
      /\ Invalidates(useConfirmTwoFactor, useUser)
      /\ Invalidates(useDisableTwoFactor, useUser)
      /\ Invalidates(useRequireTwoFactor, useUser)
  BY <1>1, <1>2, <1>3 DEF Invalidates, Matches
<1>5. useStartTwoFactor.route.writes = {}
  BY DEF useStartTwoFactor, Mutation, TwoFactorSetup, Changes, Route
<1> QED
  BY <1>4, <1>5 DEF Told, ChangesData

LEMMA UserTold ==
  ASSUME NEW p, p.shows = {}, p.admins = {},
         \A o \in p.does : o.hook \in {useUpdateUser, useSetUserDisabled, useSetUserPassword,
              useDeleteUser, useStartTwoFactor, useConfirmTwoFactor, useDisableTwoFactor,
                   useRequireTwoFactor}
  PROVE  PageTold(Together({AppShell, UserDetailPage, p}), {})
<1> DEFINE s == Together({AppShell, UserDetailPage, p})
<1>1. /\ s.shows = AppShell.shows \cup UserDetailPage.shows \cup p.shows
      /\ s.admins = AppShell.admins \cup UserDetailPage.admins \cup p.admins
      /\ s.does = AppShell.does \cup UserDetailPage.does \cup p.does
  BY DEF Together
<1>2. UserDetailPage.shows = {useUser} /\ UserDetailPage.admins = {} /\ UserDetailPage.does = {}
  BY DEF UserDetailPage, Part
<1> HIDE DEF s
<1>3. useUser.route.reads = {"users"}
  BY DEF useUser, Query, UsersGet, Get, Route
<1>4. ASSUME NEW q \in s.shows \cup s.admins, NEW o \in s.does
      PROVE  Told(o.hook, q)
  BY <1>1, <1>2, <1>3, ShellParts, UserHooksTold DEF Told, ChangesData
<1>5. PageTold(s, {})
  BY <1>4 DEF PageTold
<1> QED
  BY <1>5 DEF s

LEMMA UserGeneralTabTold == PageTold(Together({AppShell, UserDetailPage, UserGeneralTab}), {})
<1>1. /\ UserGeneralTab.shows = {} /\ UserGeneralTab.admins = {}
      /\ \A o \in UserGeneralTab.does : o.hook \in {useUpdateUser, useSetUserDisabled,
           useSetUserPassword, useDeleteUser, useStartTwoFactor, useConfirmTwoFactor,
                useDisableTwoFactor, useRequireTwoFactor}
  BY DEF UserGeneralTab, Part, Anyone, Offer, AdminOnly
<1> QED
  BY <1>1, UserTold

LEMMA UserSecurityTabTold == PageTold(Together({AppShell, UserDetailPage, UserSecurityTab}), {})
<1>1. /\ UserSecurityTab.shows = {} /\ UserSecurityTab.admins = {}
      /\ \A o \in UserSecurityTab.does : o.hook \in {useUpdateUser, useSetUserDisabled,
           useSetUserPassword, useDeleteUser, useStartTwoFactor, useConfirmTwoFactor,
                useDisableTwoFactor, useRequireTwoFactor}
  BY DEF UserSecurityTab, Anyone, Offer, AdminOnly, DangerZone, Part
<1> QED
  BY <1>1, UserTold

LEMMA UserTwoFactorTabTold == PageTold(Together({AppShell, UserDetailPage, UserTwoFactorTab}), {})
<1>1. /\ UserTwoFactorTab.shows = {} /\ UserTwoFactorTab.admins = {}
      /\ \A o \in UserTwoFactorTab.does : o.hook \in {useUpdateUser, useSetUserDisabled,
           useSetUserPassword, useDeleteUser, useStartTwoFactor, useConfirmTwoFactor,
                useDisableTwoFactor, useRequireTwoFactor}
  BY DEF UserTwoFactorTab, SelfControls, Part, Anyone, Offer, AdminOnly, AdminControls
<1> QED
  BY <1>1, UserTold

LEMMA DeploymentSections ==
  ASSUME NEW s \in DOMAIN deploymentSections
  PROVE  deploymentSections[s] \in {OverviewTab, SettingsTab, EnvVarEditor, ResourcesTab,
           NetworkingTab, DomainsManager, WebhookTab, HealthTab, VolumesTab, FilesTab,
                DeploymentBackupsTab, MonitoringTab, BuildLogsTab, CronRunsTab, RuntimeLogsTab}
BY DEF deploymentSections

LEMMA UserSections ==
  ASSUME NEW s \in DOMAIN userSections
  PROVE  userSections[s] \in {UserGeneralTab, UserSecurityTab, UserTwoFactorTab}
BY DEF userSections

LEMMA ScreensTold ==
  ASSUME NEW r, NEW s \in Screens(r)
  PROVE  PageTold(s, {})
<1>1. CASE s \in AdminPages
  BY <1>1, ShellTold, MonitoringPageTold, UsersPageTold, ImagesPageTold, ContainersPageTold,
     AuditPageTold, SettingsPageTold DEF AdminPages
<1>2. CASE s \in {Together({AppShell, page}) : page \in {DeploymentsPage, CreateDeploymentPage,
        DnsPage, BackupsPage}}
  BY <1>2, ShellTold, DeploymentsPageTold, CreateDeploymentPageTold, DnsPageTold, BackupsPageTold
<1>3. ASSUME NEW x \in DOMAIN deploymentSections,
             s = Together({AppShell, DeploymentDetailPage, deploymentSections[x]})
      PROVE  PageTold(s, {})
  <2>1. PageTold(deploymentSections[x], Bar)
    BY DeploymentSections, OverviewTabTold, SettingsTabTold, EnvVarEditorTold, ResourcesTabTold,
       NetworkingTabTold, DomainsManagerTold, WebhookTabTold, HealthTabTold, VolumesTabTold,
       FilesTabTold, DeploymentBackupsTabTold, MonitoringTabTold, BuildLogsTabTold, CronRunsTabTold,
       RuntimeLogsTabTold
  <2> QED
    BY <1>3, <2>1, DeploymentTold
<1>4. ASSUME NEW x \in DOMAIN userSections,
             s = Together({AppShell, UserDetailPage, userSections[x]})
      PROVE  PageTold(s, {})
  BY <1>4, UserSections, UserGeneralTabTold, UserSecurityTabTold, UserTwoFactorTabTold
<1>5. CASE s = LoginPage
  BY <1>5, LoginPageTold DEF PageTold
<1> QED
  BY <1>1, <1>2, <1>3, <1>4, <1>5 DEF Screens, OpenPages

LEMMA ScreensGated ==
  ASSUME NEW s \in OpenPages \cup {LoginPage}
  PROVE  Gated(s)
<1>1. CASE s \in {Together({AppShell, page}) : page \in {DeploymentsPage, CreateDeploymentPage,
        DnsPage, BackupsPage}}
  BY <1>1, Gated2, AppShellGated, DeploymentsPageGated, CreateDeploymentPageGated, DnsPageGated,
     BackupsPageGated
<1>2. ASSUME NEW x \in DOMAIN deploymentSections,
             s = Together({AppShell, DeploymentDetailPage, deploymentSections[x]})
      PROVE  Gated(s)
  <2>1. Gated(deploymentSections[x])
    BY DeploymentSections, OverviewTabGated, SettingsTabGated, EnvVarEditorGated, ResourcesTabGated,
       NetworkingTabGated, DomainsManagerGated, WebhookTabGated, HealthTabGated, VolumesTabGated,
       FilesTabGated, DeploymentBackupsTabGated, MonitoringTabGated, BuildLogsTabGated,
       CronRunsTabGated, RuntimeLogsTabGated
  <2> QED
    BY <1>2, <2>1, Gated3, AppShellGated, DeploymentDetailPageGated
<1>3. ASSUME NEW x \in DOMAIN userSections,
             s = Together({AppShell, UserDetailPage, userSections[x]})
      PROVE  Gated(s)
  <2>1. Gated(userSections[x])
    BY UserSections, UserGeneralTabGated, UserSecurityTabGated, UserTwoFactorTabGated
  <2> QED
    BY <1>3, <2>1, Gated3, AppShellGated, UserDetailPageGated
<1>4. CASE s = LoginPage
  BY <1>4, LoginPageGated
<1> QED
  BY <1>1, <1>2, <1>3, <1>4 DEF OpenPages

(* The pages ask nothing of the server that the role of their user is refused. *)
LEMMA NothingRefused ==
  ASSUME NEW r \in Roles, NEW s \in Screens(r)
  PROVE  Refused(s, r) = {}
<1>1. CASE r = "ADMIN"
  BY <1>1 DEF Refused, Permits
<1>2. CASE r # "ADMIN"
  <2>1. s \in OpenPages \cup {LoginPage}
    BY <1>2 DEF Screens, useCan, Permits
  <2>2. Gated(s)
    BY <2>1, ScreensGated
  <2>3. Shows(s, r) = s.shows
    BY <1>2 DEF Shows, useCan, Permits
  <2>4. ASSUME NEW h \in Enabled(s, r) \ Ungated
        PROVE  Permits(h.route.need, r)
    <3>1. PICK o \in s.does : o.hook = h /\ Permits(o.gate, r)
      BY DEF Enabled, useCan
    <3> QED
      BY <1>2, <2>2, <3>1 DEF Gated, Permits
  <2>5. ASSUME NEW q \in Shows(s, r) \ UngatedQueries
        PROVE  Permits(q.route.need, r)
    BY <2>2, <2>3 DEF Gated, Permits
  <2> QED
    BY <2>4, <2>5 DEF Refused
<1> QED
  BY <1>1, <1>2

LEMMA ViewsSound ==
  ASSUME NEW q \in Watchable, NEW r \in Roles, NEW v \in Views(q, r)
  PROVE  SoundView(v, q)
<1>1. CASE v = Elsewhere
  BY <1>1 DEF Elsewhere, SoundView
<1>2. ASSUME NEW s \in Screens(r), v = View(s, q, r)
      PROVE  SoundView(v, q)
  <2> DEFINE shown == q \in Shows(s, r)
             allowed == {m \in Enabled(s, r) : Permits(m.route.need, r)}
  <2>1. /\ v.shown = shown /\ v.refused = (Refused(s, r) /= {})
        /\ v.offers = {Effect(m, q, shown) : m \in allowed} \ {NoEffect}
    BY <1>2 DEF View
  <2>2. v.shown \in BOOLEAN /\ ~v.refused
    <3>1. shown \in BOOLEAN
      OBVIOUS
    <3>2. ~(Refused(s, r) /= {})
      BY NothingRefused
    <3> HIDE DEF shown
    <3> QED
      BY <2>1, <3>1, <3>2
  <2>3. ASSUME NEW e \in v.offers
        PROVE  e \in Effects /\ (e.as = "own" => e.invalidates \/ Exempt(q))
    <3>1. PICK m \in allowed : e = Effect(m, q, shown)
      BY <2>1
    <3> DEFINE inv == Invalidates(m, q)
               as == IF ~ChangesData(m, q) THEN "none"
                     ELSE IF (shown \/ inv) /\ m /= useRemoveDeployment THEN "own"
                     ELSE "other"
    <3>2. inv \in BOOLEAN
      BY DEF Invalidates
    <3>3. e = [as |-> as, invalidates |-> inv]
      BY <3>1 DEF Effect
    <3>4. as \in Sources \cup {"none"}
      BY DEF Sources
    <3>5. e \in Effects
      BY <3>2, <3>3, <3>4 DEF Effects
    <3>6. e.as = as /\ e.invalidates = inv
      BY <3>3
    <3>7. ASSUME as = "own", ~inv
          PROVE  Exempt(q)
      <4>1. shown /\ ChangesData(m, q) /\ m /= useRemoveDeployment
        BY <3>7
      <4>2. q \in s.shows \cup s.admins
        BY <4>1 DEF Shows
      <4>3. PICK o \in s.does : o.hook = m
        BY DEF Enabled
      <4>4. Told(m, q)
        BY <4>2, <4>3, ScreensTold DEF PageTold
      <4> QED
        BY <4>1, <4>4, <3>7 DEF Told
    <3> QED
      BY <3>5, <3>6, <3>7
  <2> QED
    BY <2>2, <2>3 DEF SoundView
<1> QED
  BY <1>1, <1>2 DEF Views

LEMMA CacheGoToKeeps ==
  ASSUME CacheAssumption, CacheIInv, NEW s \in views, GoTo(s)
  PROVE  CacheIInv'
<1>1. /\ screen' = s /\ s \in views
      /\ fetch' \in [at : {"idle", "asked", "read"}, misses : SUBSET Sources]
      /\ \/ fetch' = fetch /\ (~s.shown \/ screen.shown \/ fetch.at # "idle" \/ ~invalid)
         \/ fetch' = [at |-> "asked", misses |-> {}]
      /\ UNCHANGED <<watched, views, data, invalid, call, others, faults, failed>>
  BY CacheAssumption DEF GoTo, fixed, CacheIInv, CacheTypes, Sources, MountFetch, Ask, SoundView
<1>2. CacheTypes'
  BY <1>1 DEF CacheIInv, CacheTypes, Effects, Exempt
<1>3. MissesMarked'
  BY <1>1 DEF CacheIInv, CacheTypes, MissesMarked, OwnAnswered, Exempt
<1>4. MarkedAsked'
  BY <1>1 DEF CacheIInv, CacheTypes, MarkedAsked
<1> QED
  BY <1>2, <1>3, <1>4 DEF CacheIInv

LEMMA CacheCollectKeeps ==
  ASSUME CacheAssumption, CacheIInv, Collect
  PROVE  CacheIInv'
<1>1. /\ ~screen.shown
      /\ data' = [has |-> FALSE, misses |-> {}] /\ invalid' = FALSE /\ failed' = FALSE
      /\ UNCHANGED <<watched, views, screen, fetch, call, others, faults>>
  BY CacheAssumption DEF Collect, fixed, CacheIInv, CacheTypes, Sources, Nothing
<1>2. CacheTypes'
  BY <1>1 DEF CacheIInv, CacheTypes, Effects, Exempt
<1>3. MissesMarked'
  BY <1>1 DEF CacheIInv, CacheTypes, MissesMarked, OwnAnswered, Exempt
<1>4. MarkedAsked'
  BY <1>1 DEF CacheIInv, CacheTypes, MarkedAsked
<1> QED
  BY <1>2, <1>3, <1>4 DEF CacheIInv

LEMMA CachePollKeeps ==
  ASSUME CacheAssumption, CacheIInv, Poll
  PROVE  CacheIInv'
<1>1. /\ fetch' = [at |-> "asked", misses |-> {}]
      /\ UNCHANGED <<watched, views, screen, data, invalid, call, others, faults, failed>>
  BY CacheAssumption DEF Poll, fixed, CacheIInv, CacheTypes, Sources, Ask
<1>2. CacheTypes'
  BY <1>1 DEF CacheIInv, CacheTypes, Effects, Exempt
<1>3. MissesMarked'
  BY <1>1 DEF CacheIInv, CacheTypes, MissesMarked, OwnAnswered, Exempt
<1>4. MarkedAsked'
  BY <1>1 DEF CacheIInv, CacheTypes, MarkedAsked
<1> QED
  BY <1>2, <1>3, <1>4 DEF CacheIInv

LEMMA CacheServerReadsKeeps ==
  ASSUME CacheAssumption, CacheIInv, ServerReads
  PROVE  CacheIInv'
<1>1. /\ fetch.at = "asked"
      /\ fetch' \in [at : {"idle", "asked", "read"}, misses : SUBSET Sources]
      /\ fetch'.at = "read" /\ fetch'.misses = fetch.misses
      /\ UNCHANGED <<watched, views, screen, data, invalid, call, others, faults, failed>>
  BY CacheAssumption DEF ServerReads, fixed, CacheIInv, CacheTypes, Sources
<1>2. CacheTypes'
  BY <1>1 DEF CacheIInv, CacheTypes, Effects, Exempt
<1>3. MissesMarked'
  BY <1>1 DEF CacheIInv, CacheTypes, MissesMarked, OwnAnswered, Exempt
<1>4. MarkedAsked'
  BY <1>1 DEF CacheIInv, CacheTypes, MarkedAsked
<1> QED
  BY <1>2, <1>3, <1>4 DEF CacheIInv

LEMMA CacheFetchAnsweredKeeps ==
  ASSUME CacheAssumption, CacheIInv, FetchAnswered
  PROVE  CacheIInv'
<1>1. /\ data' = [has |-> TRUE, misses |-> fetch.misses]
      /\ invalid' = FALSE /\ failed' = FALSE /\ fetch' = [at |-> "idle", misses |-> {}]
      /\ UNCHANGED <<watched, views, screen, call, others, faults>>
  BY CacheAssumption DEF FetchAnswered, fixed, CacheIInv, CacheTypes, Sources, NotAsked
<1>2. CacheTypes'
  BY <1>1 DEF CacheIInv, CacheTypes, Effects, Exempt
<1>3. MissesMarked'
  BY <1>1 DEF CacheIInv, CacheTypes, MissesMarked, OwnAnswered, Exempt
<1>4. MarkedAsked'
  BY <1>1 DEF CacheIInv, CacheTypes, MarkedAsked
<1> QED
  BY <1>2, <1>3, <1>4 DEF CacheIInv

LEMMA CacheFetchFailsKeeps ==
  ASSUME CacheAssumption, CacheIInv, FetchFails
  PROVE  CacheIInv'
<1>1. /\ faults' \in 0..MaxFaults
      /\ fetch' = [at |-> "idle", misses |-> {}] /\ failed' = TRUE
      /\ UNCHANGED <<watched, views, screen, data, invalid, call, others>>
  BY CacheAssumption DEF FetchFails, fixed, CacheIInv, CacheTypes, Sources, NotAsked
<1>2. CacheTypes'
  BY <1>1 DEF CacheIInv, CacheTypes, Effects, Exempt
<1>3. MissesMarked'
  BY <1>1 DEF CacheIInv, CacheTypes, MissesMarked, OwnAnswered, Exempt
<1>4. MarkedAsked'
  BY <1>1 DEF CacheIInv, CacheTypes, MarkedAsked
<1> QED
  BY <1>2, <1>3, <1>4 DEF CacheIInv

LEMMA CacheMutateKeeps ==
  ASSUME CacheAssumption, CacheIInv, NEW effect \in screen.offers, Mutate(effect)
  PROVE  CacheIInv'
<1>1. /\ call.at = "idle" /\ call' = [at |-> "sent", does |-> effect] /\ effect \in Effects
      /\ effect.as = "own" => effect.invalidates \/ Exempt(watched)
      /\ UNCHANGED <<watched, views, screen, data, invalid, fetch, others, faults, failed>>
  BY CacheAssumption DEF Mutate, fixed, CacheIInv, CacheTypes, Sources, SoundView
<1>2. CacheTypes'
  BY <1>1 DEF CacheIInv, CacheTypes, Effects, Exempt
<1>3. MissesMarked'
  BY <1>1 DEF CacheIInv, CacheTypes, MissesMarked, OwnAnswered, Exempt
<1>4. MarkedAsked'
  BY <1>1 DEF CacheIInv, CacheTypes, MarkedAsked
<1> QED
  BY <1>2, <1>3, <1>4 DEF CacheIInv

LEMMA CacheServerWritesKeeps ==
  ASSUME CacheAssumption, CacheIInv, ServerWrites
  PROVE  CacheIInv'
<1>1. /\ call.at = "sent" /\ call'.at = "done" /\ call'.does = call.does
      /\ call' \in [at : {"idle", "sent", "done"}, does : Effects]
      /\ data' \in [has : BOOLEAN, misses : SUBSET Sources]
      /\ fetch' \in [at : {"idle", "asked", "read"}, misses : SUBSET Sources]
      /\ data'.has = data.has /\ fetch'.at = fetch.at
      /\ "own" \in data'.misses => "own" \in data.misses \/ (data.has /\ call.does.as = "own")
      /\ "own" \in fetch'.misses => "own" \in fetch.misses \/
           (fetch.at = "read" /\ call.does.as = "own")
      /\ UNCHANGED <<watched, views, screen, invalid, others, faults, failed>>
  BY CacheAssumption DEF ServerWrites, fixed, CacheIInv, CacheTypes, Sources, Misses, Effects
<1>2. CacheTypes'
  BY <1>1 DEF CacheIInv, CacheTypes, Effects, Exempt
<1>3. MissesMarked'
  BY <1>1 DEF CacheIInv, CacheTypes, MissesMarked, OwnAnswered, Exempt
<1>4. MarkedAsked'
  BY <1>1 DEF CacheIInv, CacheTypes, MarkedAsked
<1> QED
  BY <1>2, <1>3, <1>4 DEF CacheIInv

LEMMA CacheOnSuccessKeeps ==
  ASSUME CacheAssumption, CacheIInv, OnSuccess
  PROVE  CacheIInv'
<1>1. /\ call.at = "done" /\ call' = [at |-> "idle",
           does |-> [as |-> "none", invalidates |-> FALSE]]
      /\ fetch' \in [at : {"idle", "asked", "read"}, misses : SUBSET Sources]
      /\ invalid' \in BOOLEAN
      /\ \/ ~call.does.invalidates /\ invalid' = invalid /\ fetch' = fetch
         \/ /\ call.does.invalidates /\ invalid' = data.has /\ "own" \notin fetch'.misses
            /\ screen.shown => fetch'.at = "asked"
      /\ UNCHANGED <<watched, views, screen, data, others, faults, failed>>
  BY CacheAssumption DEF OnSuccess, fixed, CacheIInv, CacheTypes, Sources, NoCall, NoEffect, Ask,
     Disowned
<1>2. CacheTypes'
  BY <1>1 DEF CacheIInv, CacheTypes, Effects, Exempt
<1>3. MissesMarked'
  BY <1>1 DEF CacheIInv, CacheTypes, MissesMarked, OwnAnswered, Exempt
<1>4. MarkedAsked'
  BY <1>1 DEF CacheIInv, CacheTypes, MarkedAsked
<1> QED
  BY <1>2, <1>3, <1>4 DEF CacheIInv

LEMMA CacheAnswerLostKeeps ==
  ASSUME CacheAssumption, CacheIInv, AnswerLost
  PROVE  CacheIInv'
<1>1. /\ faults' \in 0..MaxFaults
      /\ call' = [at |-> "idle", does |-> [as |-> "none", invalidates |-> FALSE]]
      /\ data' \in [has : BOOLEAN, misses : SUBSET Sources]
      /\ fetch' \in [at : {"idle", "asked", "read"}, misses : SUBSET Sources]
      /\ data'.has = data.has /\ fetch'.at = fetch.at
      /\ "own" \notin data'.misses /\ "own" \notin fetch'.misses
      /\ UNCHANGED <<watched, views, screen, invalid, others, failed>>
  BY CacheAssumption DEF AnswerLost, fixed, CacheIInv, CacheTypes, Sources, NoCall, NoEffect,
     Disowned
<1>2. CacheTypes'
  BY <1>1 DEF CacheIInv, CacheTypes, Effects, Exempt
<1>3. MissesMarked'
  BY <1>1 DEF CacheIInv, CacheTypes, MissesMarked, OwnAnswered, Exempt
<1>4. MarkedAsked'
  BY <1>1 DEF CacheIInv, CacheTypes, MarkedAsked
<1> QED
  BY <1>2, <1>3, <1>4 DEF CacheIInv

LEMMA CacheOtherWritesKeeps ==
  ASSUME CacheAssumption, CacheIInv, OtherWrites
  PROVE  CacheIInv'
<1>1. /\ others' \in 0..MaxOthers
      /\ data' \in [has : BOOLEAN, misses : SUBSET Sources]
      /\ fetch' \in [at : {"idle", "asked", "read"}, misses : SUBSET Sources]
      /\ data'.has = data.has /\ fetch'.at = fetch.at
      /\ ("own" \in data'.misses <=> "own" \in data.misses) /\
           ("own" \in fetch'.misses <=> "own" \in fetch.misses)
      /\ UNCHANGED <<watched, views, screen, invalid, call, faults, failed>>
  BY CacheAssumption DEF OtherWrites, fixed, CacheIInv, CacheTypes, Sources, Misses
<1>2. CacheTypes'
  BY <1>1 DEF CacheIInv, CacheTypes, Effects, Exempt
<1>3. MissesMarked'
  BY <1>1 DEF CacheIInv, CacheTypes, MissesMarked, OwnAnswered, Exempt
<1>4. MarkedAsked'
  BY <1>1 DEF CacheIInv, CacheTypes, MarkedAsked
<1> QED
  BY <1>2, <1>3, <1>4 DEF CacheIInv

(* The initial state, and a step that leaves the cache alone. *)
LEMMA CacheStart ==
  ASSUME CacheAssumption, Init
  PROVE  CacheIInv
<1>1. /\ watched \in Watchable /\ screen = Elsewhere
      /\ data = [has |-> FALSE, misses |-> {}] /\ invalid = FALSE
      /\ fetch = [at |-> "idle", misses |-> {}]
      /\ call = [at |-> "idle", does |-> [as |-> "none", invalidates |-> FALSE]]
      /\ others = 0 /\ faults = 0 /\ failed = FALSE
  BY DEF Init, Nothing, NotAsked, NoCall, NoEffect
<1>2. PICK r \in Roles : views = Views(watched, r)
  BY DEF Init
<1>3. screen \in views /\ \A v \in views : SoundView(v, watched)
  BY <1>1, <1>2, ViewsSound DEF Views
<1>4. [as |-> "none", invalidates |-> FALSE] \in Effects
  BY DEF Effects
<1>5. CacheTypes
  <2>1. /\ data \in [has : BOOLEAN, misses : SUBSET Sources]
        /\ fetch \in [at : {"idle", "asked", "read"}, misses : SUBSET Sources]
    BY <1>1
  <2>2. call \in [at : {"idle", "sent", "done"}, does : Effects]
    BY <1>1, <1>4
  <2>3. call.does.as # "own"
    BY <1>1
  <2>4. others \in 0..MaxOthers /\ faults \in 0..MaxFaults
    BY <1>1, CacheAssumption
  <2> QED
    BY <1>1, <1>3, <2>1, <2>2, <2>3, <2>4 DEF CacheTypes
<1>6. MissesMarked /\ MarkedAsked
  BY <1>1 DEF MissesMarked, MarkedAsked
<1> QED
  BY <1>5, <1>6 DEF CacheIInv

LEMMA CacheStutter ==
  ASSUME CacheIInv, UNCHANGED vars
  PROVE  CacheIInv'
BY DEF vars, CacheIInv, CacheTypes, MissesMarked, MarkedAsked, OwnAnswered, Exempt, SoundView

LEMMA CacheStep ==
  ASSUME CacheAssumption, CacheIInv, Next
  PROVE  CacheIInv'
BY CacheAssumption, CacheGoToKeeps, CacheCollectKeeps, CachePollKeeps, CacheServerReadsKeeps,
   CacheFetchAnsweredKeeps, CacheFetchFailsKeeps, CacheMutateKeeps, CacheServerWritesKeeps,
   CacheOnSuccessKeeps, CacheAnswerLostKeeps, CacheOtherWritesKeeps DEF Next

LEMMA CacheImplied ==
  ASSUME CacheIInv
  PROVE  TypeOK /\ ShowsOwnWrites /\ ControlsFollowRole
<1>1. TypeOK
  BY DEF TypeOK, CacheIInv, CacheTypes, Effects
<1>2. ShowsOwnWrites
  <2>1. SUFFICES ASSUME screen.shown, call.at = "idle", fetch.at = "idle", ~failed,
                        "own" \in data.misses
                 PROVE  Exempt(watched)
    BY DEF ShowsOwnWrites, Exempt
  <2>2. ~invalid
    BY <2>1 DEF CacheIInv, MarkedAsked
  <2> QED
    BY <2>1, <2>2 DEF CacheIInv, MissesMarked, OwnAnswered
<1>3. ControlsFollowRole
  BY DEF ControlsFollowRole, CacheIInv, CacheTypes, SoundView
<1> QED
  BY <1>1, <1>2, <1>3

(* Whatever query is watched, for whichever role, and in whatever order fetches, mutations and    *)
(* their answers come: a page at rest shows what its own controls have changed, and asks nothing  *)
(* the role is refused (hooks.ts, the pages and their tabs, the @Roles of the controllers). *)
THEOREM QueryCacheHolds == SumSpec => []QueryCacheInv
<1>1. SumInit => CacheIInv
  BY CacheStart, CacheAssumption DEF SumInit
<1>2. CacheIInv /\ [SumNext]_allVars => CacheIInv'
  <2>1. SUFFICES ASSUME CacheIInv, [SumNext]_allVars PROVE CacheIInv'
    OBVIOUS
  <2>2. CASE Next
    BY <2>1, <2>2, CacheStep, CacheAssumption
  <2>3. CASE UNCHANGED vars
    BY <2>1, <2>3, CacheStutter
  <2> QED
    BY <2>1, <2>2, <2>3 DEF SumNext, allVars
<1>3. CacheIInv => QueryCacheInv
  BY CacheImplied DEF QueryCacheInv
<1> QED
  BY <1>1, <1>2, <1>3, PTL DEF SumSpec

(* ----------------------------------------------------------------------- *)
(* ActionButtons.                                                           *)

BtnJob == [kind : Btn!Kinds, by : Btn!Parts \cup {"other"}]
BtnSpinner == [key : Btn!Kinds \cup {"none"}, base : Nat]
BtnCall == [at : {"idle", "sent", "marked", "queued", "refused"}, key : Btn!Kinds \cup {"none"}]
BtnTypes ==
  /\ Btn_row \in Btn!Row /\ Btn_view \in Btn!Row /\ Btn_queue \in Seq(BtnJob)
  /\ Btn_fetch \in [at : {"idle", "asked", "read"}, row : Btn!Row]
  /\ Btn_pending \in [Btn!Parts -> BtnSpinner]
  /\ Btn_call \in [Btn!Parts -> BtnCall]
  /\ \A p \in Btn!Parts : Btn_call[p].at # "idle" => Btn_call[p].key # "none"
  /\ Btn_clicks \in 0..Btn_MaxClicks /\ Btn_others \in 0..Btn_MaxOthers
  /\ Btn_disturbed \in BOOLEAN

(* What the page shows, and what a poll is about to bring, is the row. *)
Fresh == Btn_view = Btn_row /\ (Btn_fetch.at = "read" => Btn_fetch.row = Btn_row)
(* A row that does not stop the spinner of p. *)
Early(p, r) == r.updatedAt = Btn_pending[p].base \/ r.state = "DEPLOYING"

(* At most one spinner, at most one job, and the job is the spinner's. *)
OneSpinner ==
  ~Btn_disturbed =>
    /\ \A p, q \in Btn!Parts : Btn!Spinning(p) /\ Btn!Spinning(q) => p = q
    /\ Len(Btn_queue) <= 1
    /\ Btn_queue # <<>> => Head(Btn_queue).by \in Btn!Parts /\ Btn!Spinning(Head(Btn_queue).by)
    /\ \A p \in Btn!Parts :
         Btn_call[p].at \in {"sent", "marked", "refused"} => Btn!Spinning(p) /\ Btn_queue = <<>>
(* Until its request writes the row, the spinner is as old as the row. *)
StartsFresh ==
  ~Btn_disturbed =>
    /\ (\A p \in Btn!Parts : ~Btn!Spinning(p)) => Fresh
    /\ \A p \in Btn!Parts :
         Btn_call[p].at \in {"sent", "refused"} =>
           Fresh /\ Btn_row.updatedAt = Btn_pending[p].base
(* Until its job ends, no row that a poll may bring stops the spinner; afterwards only the last. *)
StopsLast ==
  ~Btn_disturbed =>
    /\ \A p \in Btn!Parts :
         Btn_call[p].at = "marked" \/ Btn!Mine(p) =>
           Early(p, Btn_row) /\ (Btn_fetch.at = "read" => Early(p, Btn_fetch.row))
    /\ \A p \in Btn!Parts :
         Btn!Spinning(p) /\ Btn_fetch.at = "read" =>
           Early(p, Btn_fetch.row) \/ Btn_fetch.row = Btn_row

ButtonsIInv == BtnTypes /\ OneSpinner /\ StartsFresh /\ StopsLast

(* A row that is written, and the buttons there are. *)
LEMMA WrittenRow ==
  ASSUME BtnTypes, NEW s \in Btn!Settled \cup {"DEPLOYING"}
  PROVE  /\ Btn!Written(s) \in Btn!Row /\ Btn!Written(s).state = s
         /\ Btn!Written(s).updatedAt = Btn_row.updatedAt + 1
<1>1. Btn_row \in [state : Btn!Settled \cup {"DEPLOYING"}, updatedAt : Nat, release : BOOLEAN]
  BY DEF BtnTypes, Btn!Row
<1>2. /\ [Btn_row EXCEPT !.state = s] \in Btn!Row /\ [Btn_row EXCEPT !.state = s].state = s
      /\ Btn_row.updatedAt + 1 \in Nat
  BY <1>1 DEF Btn!Row
<1>3. Btn!Written(s) = [[Btn_row EXCEPT !.state = s] EXCEPT !.updatedAt = Btn_row.updatedAt + 1]
  BY DEF Btn!Written
<1> QED
  BY <1>2, <1>3 DEF Btn!Row

LEMMA OfferedKinds == \A p \in Btn!Parts : Btn!Offered(p) \subseteq Btn!Kinds /\
     "none" \notin Btn!Kinds
BY DEF Btn!Offered, Btn!Kinds

(* While nobody disturbs there is one job at most. *)
LEMMA OneJob ==
  ASSUME ButtonsIInv, ~Btn_disturbed, NEW p \in Btn!Parts
  PROVE  /\ Btn!Mine(p) => Btn_queue # <<>> /\ Head(Btn_queue).by = p /\ Btn!Spinning(p)
         /\ Btn_queue # <<>> => Len(Btn_queue) = 1 /\ Btn_queue[1] = Head(Btn_queue)
<1>1. Btn_queue \in Seq(BtnJob) /\ Len(Btn_queue) <= 1 /\ Len(Btn_queue) \in Nat
  BY DEF ButtonsIInv, BtnTypes, OneSpinner
<1>2. Btn_queue # <<>> => Len(Btn_queue) = 1 /\ Btn_queue[1] = Head(Btn_queue)
  <2>1. Btn_queue # <<>> => Len(Btn_queue) \in Nat \ {0}
    BY <1>1, EmptySeq
  <2>2. Btn_queue # <<>> => Len(Btn_queue) = 1
    <3> DEFINE n == Len(Btn_queue)
    <3>1. n \in Nat /\ n <= 1 /\ (Btn_queue # <<>> => n \in Nat \ {0})
      BY <1>1, <2>1
    <3> HIDE DEF n
    <3>2. Btn_queue # <<>> => n = 1
      BY <3>1
    <3> QED
      BY <3>2 DEF n
  <2>3. Head(Btn_queue) = Btn_queue[1]
    BY DEF Head
  <2> QED
    BY <2>2, <2>3
<1>3. ASSUME Btn!Mine(p) PROVE Btn_queue # <<>> /\ Head(Btn_queue).by = p
  BY <1>1, <1>2, <1>3 DEF Btn!Mine
<1> QED
  BY <1>2, <1>3 DEF ButtonsIInv, OneSpinner

LEMMA ClickKeeps ==
  ASSUME ButtonsAssumption, ButtonsIInv, NEW p \in Btn!Parts, NEW key \in Btn!Offered(p),
           Btn!Click(p, key)
  PROVE  ButtonsIInv'
<1>1. /\ Btn_call[p].at = "idle" /\ ~Btn!Spinning(p)
      /\ Btn_clicks' \in 0..Btn_MaxClicks
      /\ Btn_pending' \in [Btn!Parts -> BtnSpinner]
      /\ \A q \in Btn!Parts \ {p} : Btn_pending'[q] = Btn_pending[q]
      /\ Btn_pending'[p].key # "none" /\ Btn_pending'[p].base = Btn_view.updatedAt
      /\ Btn_disturbed' \in BOOLEAN
      /\ ~Btn_disturbed' => ~Btn_disturbed /\ \A q \in Btn!Parts : ~Btn!Spinning(q)
      /\ Btn_call' \in [Btn!Parts -> BtnCall]
      /\ \A q \in Btn!Parts \ {p} : Btn_call'[q] = Btn_call[q]
      /\ Btn_call'[p].at = "sent"
      /\ Btn_call'[p].key # "none"
      /\ UNCHANGED <<Btn_row, Btn_queue, Btn_view, Btn_fetch, Btn_others>>
  <2>1. key \in Btn!Kinds /\ key # "none"
    BY OfferedKinds
  <2>2. /\ Btn_call' = [Btn_call EXCEPT ![p] = [at |-> "sent", key |-> key]]
        /\ Btn_pending' = [Btn_pending EXCEPT ![p] = [key |-> key, base |-> Btn_view.updatedAt]]
    BY DEF Btn!Click
  <2>3. /\ [at |-> "sent", key |-> key] \in BtnCall
        /\ [key |-> key, base |-> Btn_view.updatedAt] \in BtnSpinner
    BY <2>1 DEF ButtonsIInv, BtnTypes, Btn!Row, BtnCall, BtnSpinner
  <2>4. /\ Btn_call' \in [Btn!Parts -> BtnCall] /\ Btn_call'[p].at = "sent"
        /\ Btn_call'[p].key # "none" /\ \A q \in Btn!Parts \ {p} : Btn_call'[q] = Btn_call[q]
    BY <2>1, <2>2, <2>3 DEF ButtonsIInv, BtnTypes
  <2>5. /\ Btn_pending' \in [Btn!Parts -> BtnSpinner]
        /\ Btn_pending'[p].key # "none" /\ Btn_pending'[p].base = Btn_view.updatedAt
        /\ \A q \in Btn!Parts \ {p} : Btn_pending'[q] = Btn_pending[q]
    BY <2>1, <2>2, <2>3 DEF ButtonsIInv, BtnTypes
  <2>6. Btn_call[p].at = "idle" /\ ~Btn!Spinning(p)
    BY DEF Btn!Click, Btn!NoCall, Btn!Busy
  <2>7. Btn_disturbed' = (Btn_disturbed \/ \E q \in Btn!Parts \ {p} : Btn!Spinning(q))
    BY DEF Btn!Click
  <2>8. Btn_disturbed' \in BOOLEAN
    BY <2>7 DEF ButtonsIInv, BtnTypes
  <2>9. ~Btn_disturbed' => ~Btn_disturbed /\ \A q \in Btn!Parts : ~Btn!Spinning(q)
    BY <2>6, <2>7
  <2>10. Btn_clicks' \in 0..Btn_MaxClicks
    BY ButtonsAssumption DEF Btn!Click, ButtonsIInv, BtnTypes
  <2> QED
    BY <2>4, <2>5, <2>6, <2>8, <2>9, <2>10 DEF Btn!Click
<1>2. BtnTypes'
  BY <1>1 DEF ButtonsIInv, BtnTypes
<1>3. OneSpinner'
  <2>1. SUFFICES ASSUME ~Btn_disturbed' PROVE OneSpinner'
    BY DEF OneSpinner
  <2>2. ~Btn_disturbed /\ \A q \in Btn!Parts : ~Btn!Spinning(q)
    BY <1>1, <2>1
  <2>3. Btn_queue = <<>>
    BY <2>2 DEF ButtonsIInv, OneSpinner
  <2>4. \A q \in Btn!Parts \ {p} : ~Btn!Spinning(q)' /\
          Btn_call'[q].at \notin {"sent", "marked", "refused"}
    BY <1>1, <2>2 DEF ButtonsIInv, OneSpinner, Btn!Spinning
  <2>5. Btn!Spinning(p)' /\ Btn_queue' = <<>>
    BY <1>1, <2>3 DEF Btn!Spinning
  <2> QED
    BY <2>4, <2>5 DEF OneSpinner
<1>4. StartsFresh'
  BY <1>1 DEF ButtonsIInv, BtnTypes, BtnCall, BtnSpinner, OneSpinner, StartsFresh, StopsLast,
     Btn!Spinning, Btn!Mine, Fresh, Early
<1>5. StopsLast'
  <2>1. SUFFICES ASSUME ~Btn_disturbed' PROVE StopsLast'
    BY DEF StopsLast
  <2>2. ~Btn_disturbed /\ \A q \in Btn!Parts : ~Btn!Spinning(q)
    BY <1>1, <2>1
  <2>3. \A q \in Btn!Parts : Btn_call'[q].at # "marked" /\ ~Btn!Mine(q)'
    BY <1>1, <2>2, OneJob DEF ButtonsIInv, OneSpinner, Btn!Mine
  <2>4. Btn_fetch'.at = "read" => Btn_fetch'.row = Btn_row'
    BY <1>1, <2>2 DEF ButtonsIInv, StartsFresh, Fresh
  <2> QED
    BY <2>3, <2>4 DEF StopsLast
<1> QED
  BY <1>2, <1>3, <1>4, <1>5 DEF ButtonsIInv

LEMMA PollKeeps ==
  ASSUME ButtonsAssumption, ButtonsIInv, Btn!Poll
  PROVE  ButtonsIInv'
<1>1. /\ Btn_fetch' \in [at : {"idle", "asked", "read"}, row : Btn!Row] /\ Btn_fetch'.at = "asked"
      /\ UNCHANGED <<Btn_row, Btn_queue, Btn_view, Btn_pending, Btn_call, Btn_clicks, Btn_others,
           Btn_disturbed>>
  BY ButtonsAssumption DEF Btn!Poll, Btn!vars, ButtonsIInv, BtnTypes, BtnCall, BtnSpinner, BtnJob,
     Btn!Row, Btn!Kinds, Btn!Settled, ButtonsAssumption, Btn!Ask
<1>2. BtnTypes'
  BY <1>1 DEF ButtonsIInv, BtnTypes
<1>3. OneSpinner'
  BY <1>1 DEF ButtonsIInv, BtnTypes, BtnCall, BtnSpinner, OneSpinner, StartsFresh, StopsLast,
     Btn!Spinning, Btn!Mine, Fresh, Early
<1>4. StartsFresh'
  BY <1>1 DEF ButtonsIInv, BtnTypes, BtnCall, BtnSpinner, OneSpinner, StartsFresh, StopsLast,
     Btn!Spinning, Btn!Mine, Fresh, Early
<1>5. StopsLast'
  BY <1>1 DEF ButtonsIInv, BtnTypes, BtnCall, BtnSpinner, OneSpinner, StartsFresh, StopsLast,
     Btn!Spinning, Btn!Mine, Fresh, Early
<1> QED
  BY <1>2, <1>3, <1>4, <1>5 DEF ButtonsIInv

LEMMA ServerReadsKeeps ==
  ASSUME ButtonsAssumption, ButtonsIInv, Btn!ServerReads
  PROVE  ButtonsIInv'
<1>1. /\ Btn_fetch' \in [at : {"idle", "asked", "read"}, row : Btn!Row] /\ Btn_fetch'.at = "read"
      /\ Btn_fetch'.row = Btn_row
      /\ UNCHANGED <<Btn_row, Btn_queue, Btn_view, Btn_pending, Btn_call, Btn_clicks, Btn_others,
           Btn_disturbed>>
  BY ButtonsAssumption DEF Btn!ServerReads, Btn!vars, ButtonsIInv, BtnTypes, BtnCall, BtnSpinner,
     BtnJob, Btn!Row, Btn!Kinds, Btn!Settled, ButtonsAssumption
<1>2. BtnTypes'
  BY <1>1 DEF ButtonsIInv, BtnTypes
<1>3. OneSpinner'
  BY <1>1 DEF ButtonsIInv, BtnTypes, BtnCall, BtnSpinner, OneSpinner, StartsFresh, StopsLast,
     Btn!Spinning, Btn!Mine, Fresh, Early
<1>4. StartsFresh'
  BY <1>1 DEF ButtonsIInv, BtnTypes, BtnCall, BtnSpinner, OneSpinner, StartsFresh, StopsLast,
     Btn!Spinning, Btn!Mine, Fresh, Early
<1>5. StopsLast'
  BY <1>1 DEF ButtonsIInv, BtnTypes, BtnCall, BtnSpinner, OneSpinner, StartsFresh, StopsLast,
     Btn!Spinning, Btn!Mine, Fresh, Early
<1> QED
  BY <1>2, <1>3, <1>4, <1>5 DEF ButtonsIInv

LEMMA FetchAnsweredKeeps ==
  ASSUME ButtonsAssumption, ButtonsIInv, Btn!FetchAnswered
  PROVE  ButtonsIInv'
<1>1. /\ Btn_fetch.at = "read"
      /\ Btn_fetch' \in [at : {"idle", "asked", "read"}, row : Btn!Row] /\ Btn_fetch'.at = "idle"
      /\ Btn_view' = Btn_fetch.row
      /\ Btn_pending' \in [Btn!Parts -> BtnSpinner]
      /\ \A q \in Btn!Parts :
         \/ Btn_pending'[q] = Btn_pending[q] /\ (~Btn!Spinning(q) \/ Early(q, Btn_fetch.row))
         \/ Btn_pending'[q].key = "none" /\ Btn!Spinning(q) /\ ~Early(q, Btn_fetch.row)
      /\ UNCHANGED <<Btn_row, Btn_queue, Btn_call, Btn_clicks, Btn_others, Btn_disturbed>>
  BY ButtonsAssumption DEF Btn!FetchAnswered, Btn!vars, ButtonsIInv, BtnTypes, BtnCall, BtnSpinner,
     BtnJob, Btn!Row, Btn!Kinds, Btn!Settled, ButtonsAssumption, Btn!Landed, Btn!NoSpinner,
     Btn!Spinning, Early
<1>2. BtnTypes'
  BY <1>1 DEF ButtonsIInv, BtnTypes
<1>3. OneSpinner'
  <2>1. SUFFICES ASSUME ~Btn_disturbed PROVE OneSpinner'
    BY <1>1 DEF OneSpinner
  <2>2. \A q \in Btn!Parts : Btn!Spinning(q)' => Btn!Spinning(q)
    BY <1>1 DEF Btn!Spinning
  <2>3. \A q \in Btn!Parts :
          Btn_call[q].at \in {"sent", "marked", "refused"} \/ Btn!Mine(q) => Early(q, Btn_fetch.row)
    BY <1>1, <2>1 DEF ButtonsIInv, StartsFresh, StopsLast, Fresh, Early
  <2>4. \A q \in Btn!Parts : Btn!Spinning(q) /\ Early(q, Btn_fetch.row) => Btn!Spinning(q)'
    BY <1>1 DEF Btn!Spinning
  <2>5. Btn_queue # <<>> => Btn!Mine(Head(Btn_queue).by)
    BY <2>1, OneJob DEF ButtonsIInv, BtnTypes, OneSpinner, Btn!Mine
  <2>6. Len(Btn_queue) <= 1 /\ \A p, q \in Btn!Parts : Btn!Spinning(p)' /\ Btn!Spinning(q)' => p = q
    BY <2>1, <2>2 DEF ButtonsIInv, OneSpinner
  <2>7. Btn_queue # <<>> => \E h \in Btn!Parts : Head(Btn_queue).by = h /\ Btn!Spinning(h)'
    <3>1. SUFFICES ASSUME Btn_queue # <<>>
                   PROVE  \E h \in Btn!Parts : Head(Btn_queue).by = h /\ Btn!Spinning(h)'
      OBVIOUS
    <3>2. PICK h \in Btn!Parts : Head(Btn_queue).by = h /\ Btn!Spinning(h)
      BY <2>1, <3>1 DEF ButtonsIInv, OneSpinner
    <3>3. Btn!Mine(h)
      BY <2>5, <3>1, <3>2
    <3>4. Btn!Spinning(h)'
      BY <2>3, <2>4, <3>2, <3>3
    <3> QED
      BY <3>2, <3>4
  <2>8. \A p \in Btn!Parts : Btn_call[p].at \in {"sent", "marked", "refused"} =>
          Btn!Spinning(p)' /\ Btn_queue = <<>>
    BY <2>1, <2>3, <2>4 DEF ButtonsIInv, OneSpinner
  <2> QED
    BY <1>1, <2>6, <2>7, <2>8 DEF OneSpinner
<1>4. StartsFresh'
  <2>1. SUFFICES ASSUME ~Btn_disturbed PROVE StartsFresh'
    BY <1>1 DEF StartsFresh
  <2>2. Btn_fetch.row = Btn_row => Fresh'
    BY <1>1 DEF Fresh
  <2>3. ASSUME \A p \in Btn!Parts : ~Btn!Spinning(p)'
        PROVE  Fresh'
    <3>1. CASE \A p \in Btn!Parts : ~Btn!Spinning(p)
      BY <1>1, <2>1, <2>2, <3>1 DEF ButtonsIInv, StartsFresh, Fresh
    <3>2. ASSUME NEW p \in Btn!Parts, Btn!Spinning(p) PROVE Btn_fetch.row = Btn_row
      <4>1. ~Early(p, Btn_fetch.row)
        BY <1>1, <2>3, <3>2 DEF Btn!Spinning
      <4> QED
        BY <1>1, <2>1, <3>2, <4>1 DEF ButtonsIInv, StopsLast
    <3> QED
      BY <2>2, <3>1, <3>2
  <2>4. ASSUME NEW p \in Btn!Parts, Btn_call[p].at \in {"sent", "refused"}
        PROVE  Fresh' /\ Btn_row'.updatedAt = Btn_pending'[p].base
    <3>1. Btn_fetch.row = Btn_row /\ Btn_row.updatedAt = Btn_pending[p].base
      BY <1>1, <2>1, <2>4 DEF ButtonsIInv, StartsFresh, Fresh
    <3>2. Btn_pending'[p] = Btn_pending[p]
      BY <1>1, <3>1 DEF Early
    <3> QED
      BY <1>1, <2>2, <3>1, <3>2
  <2>5. Btn_call' = Btn_call
    BY <1>1
  <2> QED
    BY <2>3, <2>4, <2>5 DEF StartsFresh
<1>5. StopsLast'
  <2>1. SUFFICES ASSUME ~Btn_disturbed PROVE StopsLast'
    BY <1>1 DEF StopsLast
  <2>2. ASSUME NEW p \in Btn!Parts, Btn_call[p].at = "marked" \/ Btn!Mine(p)
        PROVE  Early(p, Btn_row)'
    <3>1. Early(p, Btn_row) /\ Early(p, Btn_fetch.row)
      BY <1>1, <2>1, <2>2 DEF ButtonsIInv, StopsLast
    <3>2. Btn_pending'[p] = Btn_pending[p]
      BY <1>1, <3>1
    <3> QED
      BY <1>1, <3>1, <3>2 DEF Early
  <2>3. \A p \in Btn!Parts : Btn!Mine(p)' <=> Btn!Mine(p)
    BY <1>1 DEF Btn!Mine
  <2> QED
    BY <1>1, <2>2, <2>3 DEF StopsLast
<1> QED
  BY <1>2, <1>3, <1>4, <1>5 DEF ButtonsIInv

LEMMA AnsweredKeeps ==
  ASSUME ButtonsAssumption, ButtonsIInv, NEW p \in Btn!Parts, Btn!Answered(p)
  PROVE  ButtonsIInv'
<1>1. /\ \/ /\ Btn_call[p].at = "queued" /\ Btn_pending' = Btn_pending
            /\ Btn_fetch' \in [at : {"idle", "asked", "read"}, row : Btn!Row] /\
                 Btn_fetch'.at = "asked"
         \/ /\ Btn_call[p].at = "refused" /\ Btn_fetch' = Btn_fetch
            /\ Btn_pending' \in [Btn!Parts -> BtnSpinner] /\ Btn_pending'[p].key = "none"
            /\ \A q \in Btn!Parts \ {p} : Btn_pending'[q] = Btn_pending[q]
      /\ Btn_call' \in [Btn!Parts -> BtnCall]
      /\ \A q \in Btn!Parts \ {p} : Btn_call'[q] = Btn_call[q]
      /\ Btn_call'[p].at = "idle"
      /\ UNCHANGED <<Btn_row, Btn_queue, Btn_view, Btn_clicks, Btn_others, Btn_disturbed>>
  <2>1. Btn_call' = [Btn_call EXCEPT ![p] = [at |-> "idle", key |-> "none"]]
    BY DEF Btn!Answered, Btn!NoCall
  <2>2. [at |-> "idle", key |-> "none"] \in BtnCall
    BY DEF BtnCall
  <2>3. /\ Btn_call' \in [Btn!Parts -> BtnCall] /\ Btn_call'[p].at = "idle"
        /\ \A q \in Btn!Parts \ {p} : Btn_call'[q] = Btn_call[q]
    BY <2>1, <2>2 DEF ButtonsIInv, BtnTypes
  <2>4. CASE Btn_call[p].at = "queued"
    BY <2>3, <2>4 DEF Btn!Answered, Btn!Ask, ButtonsIInv, BtnTypes
  <2>5. CASE Btn_call[p].at # "queued"
    <3>1. /\ Btn_call[p].at = "refused" /\ Btn_fetch' = Btn_fetch
          /\ Btn_pending' = [Btn_pending EXCEPT ![p] = [key |-> "none", base |-> 0]]
      BY <2>5 DEF Btn!Answered, Btn!NoSpinner
    <3>2. [key |-> "none", base |-> 0] \in BtnSpinner
      BY DEF BtnSpinner
    <3>3. /\ Btn_pending' \in [Btn!Parts -> BtnSpinner] /\ Btn_pending'[p].key = "none"
          /\ \A q \in Btn!Parts \ {p} : Btn_pending'[q] = Btn_pending[q]
      BY <3>1, <3>2 DEF ButtonsIInv, BtnTypes
    <3> QED
      BY <2>3, <3>1, <3>3 DEF Btn!Answered
  <2> QED
    BY <2>4, <2>5
<1>2. BtnTypes'
  BY <1>1 DEF ButtonsIInv, BtnTypes
<1>3. OneSpinner'
  <2>1. SUFFICES ASSUME ~Btn_disturbed PROVE OneSpinner'
    BY <1>1 DEF OneSpinner
  <2>2. CASE Btn_call[p].at = "queued"
    BY <1>1, <2>1, <2>2 DEF ButtonsIInv, OneSpinner, Btn!Spinning
  <2>3. CASE Btn_call[p].at = "refused"
    <3>1. Btn!Spinning(p) /\ Btn_queue = <<>>
      BY <2>1, <2>3 DEF ButtonsIInv, OneSpinner
    <3>2. \A q \in Btn!Parts : ~Btn!Spinning(q)'
      BY <1>1, <2>1, <2>3, <3>1 DEF ButtonsIInv, OneSpinner, Btn!Spinning
    <3>3. \A q \in Btn!Parts : Btn_call'[q].at \notin {"sent", "marked", "refused"}
      BY <1>1, <2>1, <3>1 DEF ButtonsIInv, OneSpinner
    <3> QED
      BY <1>1, <3>1, <3>2, <3>3 DEF OneSpinner
  <2> QED
    BY <1>1, <2>2, <2>3
<1>4. StartsFresh'
  <2>1. SUFFICES ASSUME ~Btn_disturbed PROVE StartsFresh'
    BY <1>1 DEF StartsFresh
  <2>2. CASE Btn_call[p].at = "queued"
    BY <1>1, <2>1, <2>2 DEF ButtonsIInv, StartsFresh, Fresh, Btn!Spinning
  <2>3. CASE Btn_call[p].at = "refused"
    <3>1. Fresh /\ Fresh'
      BY <1>1, <2>1, <2>3 DEF ButtonsIInv, StartsFresh, Fresh
    <3>2. \A q \in Btn!Parts : Btn_call'[q].at \notin {"sent", "refused"}
      BY <1>1, <2>1, <2>3 DEF ButtonsIInv, OneSpinner
    <3> QED
      BY <3>1, <3>2 DEF StartsFresh
  <2> QED
    BY <1>1, <2>2, <2>3
<1>5. StopsLast'
  <2>1. SUFFICES ASSUME ~Btn_disturbed PROVE StopsLast'
    BY <1>1 DEF StopsLast
  <2>2. CASE Btn_call[p].at = "queued"
    <3>1. Btn_fetch'.at # "read" /\ \A q \in Btn!Parts : Btn!Mine(q)' <=> Btn!Mine(q)
      BY <1>1, <2>2 DEF Btn!Mine
    <3>2. \A q \in Btn!Parts : Btn_call'[q].at = "marked" => Btn_call[q].at = "marked"
      BY <1>1
    <3>3. \A q \in Btn!Parts : Btn_call[q].at = "marked" \/ Btn!Mine(q) => Early(q, Btn_row)
      BY <2>1 DEF ButtonsIInv, StopsLast
    <3>4. \A q \in Btn!Parts : Early(q, Btn_row)' <=> Early(q, Btn_row)
      BY <1>1, <2>2 DEF Early
    <3> QED
      BY <3>1, <3>2, <3>3, <3>4 DEF StopsLast
  <2>3. CASE Btn_call[p].at = "refused"
    <3>1. Btn!Spinning(p) /\ Btn_queue = <<>> /\ Btn_queue' = <<>>
      BY <1>1, <2>1, <2>3 DEF ButtonsIInv, OneSpinner
    <3>2. \A q \in Btn!Parts : ~Btn!Spinning(q)'
      BY <1>1, <2>1, <2>3, <3>1 DEF ButtonsIInv, OneSpinner, Btn!Spinning
    <3>3. \A q \in Btn!Parts : Btn_call'[q].at # "marked" /\ ~Btn!Mine(q)'
      BY <1>1, <2>1, <3>1 DEF ButtonsIInv, OneSpinner, Btn!Mine
    <3> QED
      BY <3>2, <3>3 DEF StopsLast
  <2> QED
    BY <1>1, <2>2, <2>3
<1> QED
  BY <1>2, <1>3, <1>4, <1>5 DEF ButtonsIInv

LEMMA RemountKeeps ==
  ASSUME ButtonsAssumption, ButtonsIInv, Btn!Remount
  PROVE  ButtonsIInv'
<1>1. /\ Btn_others' \in 0..Btn_MaxOthers /\ Btn_disturbed' = TRUE
      /\ Btn_pending' \in [Btn!Parts -> BtnSpinner]
      /\ UNCHANGED <<Btn_row, Btn_queue, Btn_view, Btn_fetch, Btn_call, Btn_clicks>>
  BY ButtonsAssumption DEF Btn!Remount, Btn!vars, ButtonsIInv, BtnTypes, BtnCall, BtnSpinner,
     BtnJob, Btn!Row, Btn!Kinds, Btn!Settled, ButtonsAssumption, Btn!NoSpinner
<1>2. BtnTypes'
  BY <1>1 DEF ButtonsIInv, BtnTypes
<1>3. OneSpinner' /\ StartsFresh' /\ StopsLast'
  BY <1>1 DEF OneSpinner, StartsFresh, StopsLast
<1> QED
  BY <1>2, <1>3 DEF ButtonsIInv

LEMMA MarkKeeps ==
  ASSUME ButtonsAssumption, ButtonsIInv, NEW p \in Btn!Parts, Btn!Mark(p)
  PROVE  ButtonsIInv'
<1>1. /\ Btn_call[p].at = "sent"
      /\ \/ Btn_call'[p].at = "refused" /\ Btn_row' = Btn_row
         \/ Btn_call'[p].at = "marked" /\ Btn_row' \in Btn!Row /\ Btn_row'.state = "DEPLOYING"
      /\ Btn_call' \in [Btn!Parts -> BtnCall]
      /\ \A q \in Btn!Parts \ {p} : Btn_call'[q] = Btn_call[q]
      /\ Btn_call'[p].key = Btn_call[p].key
      /\ UNCHANGED <<Btn_queue, Btn_view, Btn_fetch, Btn_pending, Btn_clicks, Btn_others,
           Btn_disturbed>>
  <2>1. Btn_call[p] \in BtnCall /\ Btn_call[p].at = "sent"
    BY DEF Btn!Mark, ButtonsIInv, BtnTypes
  <2>2. ASSUME NEW at \in {"refused", "marked"}, Btn_call' = [Btn_call EXCEPT ![p].at = at]
        PROVE  /\ Btn_call' \in [Btn!Parts -> BtnCall] /\ Btn_call'[p].at = at
               /\ Btn_call'[p].key = Btn_call[p].key
               /\ \A q \in Btn!Parts \ {p} : Btn_call'[q] = Btn_call[q]
    BY <2>1, <2>2 DEF ButtonsIInv, BtnTypes, BtnCall
  <2>3. CASE Btn_call[p].key \in {"start", "restart"} /\ ~Btn_row.release
    BY <2>1, <2>2, <2>3 DEF Btn!Mark
  <2>4. CASE ~(Btn_call[p].key \in {"start", "restart"} /\ ~Btn_row.release)
    <3>1. Btn_call' = [Btn_call EXCEPT ![p].at = "marked"] /\ Btn_row' = Btn!Written("DEPLOYING")
      BY <2>4 DEF Btn!Mark
    <3>2. Btn_row' \in Btn!Row /\ Btn_row'.state = "DEPLOYING"
      BY <3>1, WrittenRow DEF ButtonsIInv
    <3> QED
      BY <2>1, <2>2, <3>1, <3>2 DEF Btn!Mark
  <2> QED
    BY <2>3, <2>4
<1>2. BtnTypes'
  BY <1>1 DEF ButtonsIInv, BtnTypes
<1>3. OneSpinner'
  <2>1. SUFFICES ASSUME ~Btn_disturbed PROVE OneSpinner'
    BY <1>1 DEF OneSpinner
  <2>2. \A q \in Btn!Parts : Btn_call'[q].at \in {"sent", "marked", "refused"} =>
          Btn_call[q].at \in {"sent", "marked", "refused"}
    BY <1>1
  <2>3. \A q \in Btn!Parts : Btn!Spinning(q)' <=> Btn!Spinning(q)
    BY <1>1 DEF Btn!Spinning
  <2> QED
    BY <1>1, <2>1, <2>2, <2>3 DEF ButtonsIInv, OneSpinner
<1>4. StartsFresh'
  <2>1. SUFFICES ASSUME ~Btn_disturbed PROVE StartsFresh'
    BY <1>1 DEF StartsFresh
  <2>2. /\ Btn!Spinning(p) /\ Btn!Spinning(p)' /\ Btn_queue = <<>> /\ Btn_queue' = <<>>
        /\ \A q \in Btn!Parts \ {p} : /\ ~Btn!Spinning(q) /\ ~Btn!Spinning(q)'
                                     /\ Btn_call'[q].at \notin {"sent", "marked", "refused"}
    BY <1>1, <2>1 DEF ButtonsIInv, OneSpinner, Btn!Spinning
  <2>3. Fresh /\ Btn_row.updatedAt = Btn_pending[p].base
    BY <1>1, <2>1 DEF ButtonsIInv, StartsFresh
  <2>4. Btn_call'[p].at \in {"sent", "refused"} => Fresh' /\
          Btn_row'.updatedAt = Btn_pending'[p].base
    BY <1>1, <2>3 DEF Fresh
  <2> QED
    BY <2>2, <2>4 DEF StartsFresh
<1>5. StopsLast'
  <2>1. SUFFICES ASSUME ~Btn_disturbed PROVE StopsLast'
    BY <1>1 DEF StopsLast
  <2>2. /\ Btn!Spinning(p) /\ Btn!Spinning(p)' /\ Btn_queue = <<>> /\ Btn_queue' = <<>>
        /\ \A q \in Btn!Parts \ {p} : /\ ~Btn!Spinning(q) /\ ~Btn!Spinning(q)'
                                     /\ Btn_call'[q].at \notin {"sent", "marked", "refused"}
    BY <1>1, <2>1 DEF ButtonsIInv, OneSpinner, Btn!Spinning
  <2>3. Fresh /\ Btn_row.updatedAt = Btn_pending[p].base
    BY <1>1, <2>1 DEF ButtonsIInv, StartsFresh
  <2>4. Btn_fetch.at = "read" => Early(p, Btn_fetch.row)'
    BY <1>1, <2>3 DEF Fresh, Early
  <2>5. Btn_call'[p].at = "marked" => Early(p, Btn_row)'
    BY <1>1 DEF Early
  <2>6. \A q \in Btn!Parts : ~Btn!Mine(q)'
    BY <2>2 DEF Btn!Mine
  <2> QED
    BY <1>1, <2>2, <2>4, <2>5, <2>6 DEF StopsLast
<1> QED
  BY <1>2, <1>3, <1>4, <1>5 DEF ButtonsIInv

LEMMA EnqueueKeeps ==
  ASSUME ButtonsAssumption, ButtonsIInv, NEW p \in Btn!Parts, Btn!Enqueue(p)
  PROVE  ButtonsIInv'
<1>1. /\ Btn_call[p].at \in {"sent", "marked"}
      /\ \E job \in BtnJob : job.by = p /\ Btn_queue' = Append(Btn_queue, job)
      /\ Btn_call' \in [Btn!Parts -> BtnCall]
      /\ \A q \in Btn!Parts \ {p} : Btn_call'[q] = Btn_call[q]
      /\ Btn_call'[p].at = "queued"
      /\ Btn_call'[p].key = Btn_call[p].key
      /\ UNCHANGED <<Btn_row, Btn_view, Btn_fetch, Btn_pending, Btn_clicks, Btn_others,
           Btn_disturbed>>
  <2>1. Btn_call[p] \in BtnCall /\ Btn_call[p].at \in {"sent", "marked"}
    BY DEF Btn!Enqueue, ButtonsIInv, BtnTypes
  <2>2. Btn_call' = [Btn_call EXCEPT ![p].at = "queued"]
    BY DEF Btn!Enqueue
  <2>3. /\ Btn_call' \in [Btn!Parts -> BtnCall] /\ Btn_call'[p].at = "queued"
        /\ Btn_call'[p].key = Btn_call[p].key
        /\ \A q \in Btn!Parts \ {p} : Btn_call'[q] = Btn_call[q]
    BY <2>1, <2>2 DEF ButtonsIInv, BtnTypes, BtnCall
  <2>4. Btn_call[p].key \in Btn!Kinds
    BY <2>1 DEF ButtonsIInv, BtnTypes, BtnCall
  <2>5. [kind |-> Btn_call[p].key, by |-> p] \in BtnJob
    BY <2>4 DEF BtnJob
  <2> QED
    BY <2>1, <2>3, <2>5 DEF Btn!Enqueue
<1>2. BtnTypes'
  BY <1>1 DEF ButtonsIInv, BtnTypes
<1>3. OneSpinner'
  <2>1. SUFFICES ASSUME ~Btn_disturbed PROVE OneSpinner'
    BY <1>1 DEF OneSpinner
  <2>2. Btn!Spinning(p) /\ Btn_queue = <<>>
    BY <1>1, <2>1 DEF ButtonsIInv, OneSpinner
  <2>3. PICK job \in BtnJob : job.by = p /\ Btn_queue' = Append(Btn_queue, job)
    BY <1>1
  <2>4. Btn_queue' = <<job>> /\ Len(Btn_queue') = 1 /\ Head(Btn_queue') = job
    BY <2>2, <2>3
  <2>5. \A q \in Btn!Parts : Btn!Spinning(q)' <=> Btn!Spinning(q)
    BY <1>1 DEF Btn!Spinning
  <2>6. \A q \in Btn!Parts : Btn_call'[q].at \notin {"sent", "marked", "refused"}
    BY <1>1, <2>1, <2>2 DEF ButtonsIInv, OneSpinner
  <2> QED
    BY <2>1, <2>2, <2>3, <2>4, <2>5, <2>6 DEF ButtonsIInv, OneSpinner
<1>4. StartsFresh'
  BY <1>1 DEF ButtonsIInv, BtnTypes, BtnCall, BtnSpinner, OneSpinner, StartsFresh, StopsLast,
     Btn!Spinning, Btn!Mine, Fresh, Early
<1>5. StopsLast'
  <2>1. SUFFICES ASSUME ~Btn_disturbed PROVE StopsLast'
    BY <1>1 DEF StopsLast
  <2>2. Btn_queue = <<>> /\ Btn!Spinning(p)
    BY <1>1, <2>1 DEF ButtonsIInv, OneSpinner
  <2>3. PICK job \in BtnJob : job.by = p /\ Btn_queue' = Append(Btn_queue, job)
    BY <1>1
  <2>4. Btn_queue' = <<job>>
    BY <2>2, <2>3
  <2>5. \A q \in Btn!Parts : Btn!Mine(q)' => q = p
    BY <2>3, <2>4 DEF Btn!Mine
  <2>6. Early(p, Btn_row) /\ (Btn_fetch.at = "read" => Early(p, Btn_fetch.row))
    BY <1>1, <2>1 DEF ButtonsIInv, StartsFresh, StopsLast, Fresh, Early
  <2>7. /\ Early(p, Btn_row)' <=> Early(p, Btn_row)
        /\ Early(p, Btn_fetch.row)' <=> Early(p, Btn_fetch.row)
    BY <1>1 DEF Early
  <2>8. \A q \in Btn!Parts : Btn_call'[q].at = "marked" => FALSE
    BY <1>1, <2>1, <2>2 DEF ButtonsIInv, OneSpinner
  <2>9. \A q \in Btn!Parts : Btn!Spinning(q)' /\ Btn_fetch.at = "read" =>
          Early(q, Btn_fetch.row)' \/ Btn_fetch.row = Btn_row
    BY <1>1, <2>1 DEF ButtonsIInv, StopsLast, Btn!Spinning, Early
  <2> QED
    BY <1>1, <2>5, <2>6, <2>7, <2>8, <2>9 DEF StopsLast
<1> QED
  BY <1>2, <1>3, <1>4, <1>5 DEF ButtonsIInv

LEMMA JobEndsKeeps ==
  ASSUME ButtonsAssumption, ButtonsIInv, Btn!JobEnds
  PROVE  ButtonsIInv'
<1>1. /\ Btn_queue # <<>> /\ Btn_queue' = Tail(Btn_queue)
      /\ Btn_row' \in Btn!Row
      /\ UNCHANGED <<Btn_view, Btn_fetch, Btn_pending, Btn_call, Btn_clicks, Btn_others,
           Btn_disturbed>>
  <2>1. PICK state \in {IF Head(Btn_queue).kind = "stop" THEN "STOPPED" ELSE "RUNNING", "DEGRADED",
          "ERROR"} :
          Btn_row' = [Btn!Written(state) EXCEPT !.release = @ \/
               (Head(Btn_queue).kind = "deploy" /\ state = "RUNNING")]
    BY DEF Btn!JobEnds
  <2>2. state \in Btn!Settled \cup {"DEPLOYING"}
    BY DEF Btn!Settled
  <2>3. Btn!Written(state) \in Btn!Row
    BY <2>2, WrittenRow DEF ButtonsIInv
  <2>4. (Btn!Written(state).release \/
          (Head(Btn_queue).kind = "deploy" /\ state = "RUNNING")) \in BOOLEAN
    OBVIOUS
  <2>5. Btn_row' = [Btn!Written(state) EXCEPT
                      !.release = (Btn!Written(state).release \/
                           (Head(Btn_queue).kind = "deploy" /\ state = "RUNNING"))]
    BY <2>1
  <2>6. Btn_row' \in Btn!Row
    BY <2>3, <2>4, <2>5 DEF Btn!Row
  <2> QED
    BY <2>6 DEF Btn!JobEnds
<1>2. BtnTypes'
  BY <1>1 DEF ButtonsIInv, BtnTypes
<1>3. OneSpinner'
  BY <1>1 DEF ButtonsIInv, BtnTypes, BtnCall, BtnSpinner, OneSpinner, StartsFresh, StopsLast,
     Btn!Spinning, Btn!Mine, Fresh, Early
<1>4. StartsFresh'
  BY <1>1 DEF ButtonsIInv, BtnTypes, BtnCall, BtnSpinner, OneSpinner, StartsFresh, StopsLast,
     Btn!Spinning, Btn!Mine, Fresh, Early
<1>5. StopsLast'
  BY <1>1 DEF ButtonsIInv, BtnTypes, BtnCall, BtnSpinner, OneSpinner, StartsFresh, StopsLast,
     Btn!Spinning, Btn!Mine, Fresh, Early
<1> QED
  BY <1>2, <1>3, <1>4, <1>5 DEF ButtonsIInv

LEMMA OtherSavesKeeps ==
  ASSUME ButtonsAssumption, ButtonsIInv, Btn!OtherSaves
  PROVE  ButtonsIInv'
<1>1. /\ Btn_others' \in 0..Btn_MaxOthers /\ Btn_disturbed' = TRUE
      /\ Btn_row' \in Btn!Row
      /\ UNCHANGED <<Btn_queue, Btn_view, Btn_fetch, Btn_pending, Btn_call, Btn_clicks>>
  <2>1. Btn_row' = Btn!Written(Btn_row.state) /\ Btn_row.state \in Btn!Settled \cup {"DEPLOYING"}
    BY DEF Btn!OtherSaves, ButtonsIInv, BtnTypes, Btn!Row
  <2>2. Btn_row' \in Btn!Row
    BY <2>1, WrittenRow DEF ButtonsIInv
  <2>3. Btn_others' \in 0..Btn_MaxOthers
    BY ButtonsAssumption DEF Btn!OtherSaves, ButtonsIInv, BtnTypes
  <2> QED
    BY <2>2, <2>3 DEF Btn!OtherSaves
<1>2. BtnTypes'
  BY <1>1 DEF ButtonsIInv, BtnTypes
<1>3. OneSpinner' /\ StartsFresh' /\ StopsLast'
  BY <1>1 DEF OneSpinner, StartsFresh, StopsLast
<1> QED
  BY <1>2, <1>3 DEF ButtonsIInv

LEMMA OtherDeploysKeeps ==
  ASSUME ButtonsAssumption, ButtonsIInv, Btn!OtherDeploys
  PROVE  ButtonsIInv'
<1>1. /\ Btn_others' \in 0..Btn_MaxOthers /\ Btn_disturbed' = TRUE
      /\ Btn_row' \in Btn!Row
      /\ Btn_queue' \in Seq(BtnJob)
      /\ UNCHANGED <<Btn_view, Btn_fetch, Btn_pending, Btn_call, Btn_clicks>>
  <2>1. Btn_row' \in Btn!Row
    BY WrittenRow DEF Btn!OtherDeploys, ButtonsIInv
  <2>2. [kind |-> "deploy", by |-> "other"] \in BtnJob
    BY DEF BtnJob, Btn!Kinds
  <2>3. Btn_queue' \in Seq(BtnJob)
    BY <2>2 DEF Btn!OtherDeploys, ButtonsIInv, BtnTypes
  <2>4. Btn_others' \in 0..Btn_MaxOthers
    BY ButtonsAssumption DEF Btn!OtherDeploys, ButtonsIInv, BtnTypes
  <2> QED
    BY <2>1, <2>3, <2>4 DEF Btn!OtherDeploys
<1>2. BtnTypes'
  BY <1>1 DEF ButtonsIInv, BtnTypes
<1>3. OneSpinner' /\ StartsFresh' /\ StopsLast'
  BY <1>1 DEF OneSpinner, StartsFresh, StopsLast
<1> QED
  BY <1>2, <1>3 DEF ButtonsIInv

LEMMA ForgetKeeps ==
  ASSUME ButtonsAssumption, ButtonsIInv, Btn!Forget
  PROVE  ButtonsIInv'
<1>1. /\ Btn_queue = <<>> /\ Btn_view = Btn_row /\ Btn_fetch.at = "idle" /\ Btn_disturbed' = FALSE
      /\ \A p \in Btn!Parts : ~Btn!Spinning(p) /\ Btn_call[p].at = "idle"
      /\ UNCHANGED <<Btn_row, Btn_queue, Btn_view, Btn_fetch, Btn_pending, Btn_call, Btn_clicks,
           Btn_others>>
  BY ButtonsAssumption DEF Btn!Forget, Btn!vars, ButtonsIInv, BtnTypes, BtnCall, BtnSpinner, BtnJob,
     Btn!Row, Btn!Kinds, Btn!Settled, ButtonsAssumption, Btn!Quiet, Btn!NoCall
<1>2. BtnTypes'
  BY <1>1 DEF ButtonsIInv, BtnTypes
<1>3. OneSpinner'
  BY <1>1 DEF ButtonsIInv, BtnTypes, BtnCall, BtnSpinner, OneSpinner, StartsFresh, StopsLast,
     Btn!Spinning, Btn!Mine, Fresh, Early
<1>4. StartsFresh'
  BY <1>1 DEF ButtonsIInv, BtnTypes, BtnCall, BtnSpinner, OneSpinner, StartsFresh, StopsLast,
     Btn!Spinning, Btn!Mine, Fresh, Early
<1>5. StopsLast'
  BY <1>1 DEF ButtonsIInv, BtnTypes, BtnCall, BtnSpinner, OneSpinner, StartsFresh, StopsLast,
     Btn!Spinning, Btn!Mine, Fresh, Early
<1> QED
  BY <1>2, <1>3, <1>4, <1>5 DEF ButtonsIInv

LEMMA ButtonsStart ==
  ASSUME ButtonsAssumption, Btn!Init
  PROVE  ButtonsIInv
<1>1. /\ Btn_row \in [state : Btn!Settled, updatedAt : {0}, release : BOOLEAN]
      /\ Btn_queue = <<>> /\ Btn_view = Btn_row /\ Btn_fetch = [at |-> "idle", row |-> Btn_row]
      /\ Btn_pending = [p \in Btn!Parts |-> [key |-> "none", base |-> 0]]
      /\ Btn_call = [p \in Btn!Parts |-> [at |-> "idle", key |-> "none"]]
      /\ Btn_clicks = 0 /\ Btn_others = 0 /\ Btn_disturbed = FALSE
  BY DEF Btn!Init, Btn!NoSpinner, Btn!NoCall
<1>2. Btn_row \in Btn!Row
  BY <1>1 DEF Btn!Row
<1>3. /\ [key |-> "none", base |-> 0] \in BtnSpinner
      /\ [at |-> "idle", key |-> "none"] \in BtnCall
  BY DEF BtnSpinner, BtnCall
<1>4. BtnTypes
  <2>1. Btn_fetch \in [at : {"idle", "asked", "read"}, row : Btn!Row] /\ Btn_queue \in Seq(BtnJob)
    BY <1>1, <1>2
  <2>2. /\ Btn_pending \in [Btn!Parts -> BtnSpinner] /\ Btn_call \in [Btn!Parts -> BtnCall]
        /\ \A p \in Btn!Parts : Btn_call[p].at = "idle"
    BY <1>1, <1>3
  <2>3. Btn_clicks \in 0..Btn_MaxClicks /\ Btn_others \in 0..Btn_MaxOthers
    BY <1>1, ButtonsAssumption
  <2> QED
    BY <1>1, <1>2, <2>1, <2>2, <2>3 DEF BtnTypes
<1>5. \A p \in Btn!Parts : ~Btn!Spinning(p) /\ Btn_call[p].at = "idle" /\ ~Btn!Mine(p)
  BY <1>1 DEF Btn!Spinning, Btn!Mine
<1>6. OneSpinner /\ StartsFresh /\ StopsLast
  BY <1>1, <1>5 DEF OneSpinner, StartsFresh, StopsLast, Fresh
<1> QED
  BY <1>4, <1>6 DEF ButtonsIInv

LEMMA ButtonsStutter ==
  ASSUME ButtonsIInv, UNCHANGED buttonsVars
  PROVE  ButtonsIInv'
BY DEF buttonsVars, ButtonsIInv, BtnTypes, OneSpinner, StartsFresh, StopsLast, Fresh, Early,
       Btn!Spinning, Btn!Mine

LEMMA ButtonsStep ==
  ASSUME ButtonsAssumption, ButtonsIInv, Btn!Next
  PROVE  ButtonsIInv'
BY ButtonsAssumption, ClickKeeps, PollKeeps, ServerReadsKeeps, FetchAnsweredKeeps, AnsweredKeeps,
   RemountKeeps, MarkKeeps, EnqueueKeeps, JobEndsKeeps, OtherSavesKeeps, OtherDeploysKeeps,
   ForgetKeeps DEF Btn!Next

LEMMA ButtonsImplied ==
  ASSUME ButtonsAssumption, ButtonsIInv
  PROVE  Btn!ButtonsInv
<1>1. Btn!TypeOK
  <2>1. \A i \in DOMAIN Btn_queue : Btn_queue[i] \in BtnJob
    BY DEF ButtonsIInv, BtnTypes
  <2> QED
    BY <2>1 DEF Btn!TypeOK, ButtonsIInv, BtnTypes, BtnJob, BtnSpinner, BtnCall
<1>2. Btn!SpinnerCoversJob
  <2>1. SUFFICES ASSUME ~Btn_disturbed, NEW p \in Btn!Parts,
                        Btn!Mine(p) \/ Btn_call[p].at \in {"sent", "marked"}
                 PROVE  Btn!Spinning(p)
    BY DEF Btn!SpinnerCoversJob
  <2> QED
    BY <2>1, OneJob DEF ButtonsIInv, OneSpinner
<1> QED
  BY <1>1, <1>2 DEF Btn!ButtonsInv

(* When only one part of the page acts on the deployment, its spinner stops no sooner than its    *)
(* job ends, however often the row is polled and whenever the polls are answered (DeployActions,  *)
(* ReleasesGrid). *)
THEOREM ButtonsHold == SumSpec => []ButtonsInv
<1>1. SumInit => ButtonsIInv
  BY ButtonsStart, ButtonsAssumption DEF SumInit
<1>2. ButtonsIInv /\ [SumNext]_allVars => ButtonsIInv'
  <2>1. SUFFICES ASSUME ButtonsIInv, [SumNext]_allVars PROVE ButtonsIInv'
    OBVIOUS
  <2>2. CASE Btn!Next
    BY <2>1, <2>2, ButtonsStep, ButtonsAssumption
  <2>3. CASE UNCHANGED buttonsVars
    BY <2>1, <2>3, ButtonsStutter
  <2> QED
    BY <2>1, <2>2, <2>3 DEF SumNext, allVars
<1>3. ButtonsIInv => ButtonsInv
  BY ButtonsImplied, ButtonsAssumption DEF ButtonsInv
<1> QED
  BY <1>1, <1>2, <1>3, PTL DEF SumSpec

(* ----------------------------------------------------------------------- *)
(* Sessions.                                                                *)

SesCall == [at : {"idle", "sent", "code", "checked", "wrong", "expiring", "right",
                  "enabling", "issue", "answer", "denied", "leaving", "left"},
            flow : {"none", "refresh", "login", "verify", "setup", "logout"},
            tok : 0..Ses_MaxTokens, since : Nat]
SesTypes ==
  /\ Ses_account \in [disabled : BOOLEAN, required : BOOLEAN, secret : BOOLEAN]
  /\ Ses_hash \in [tok : 0..Ses_MaxTokens, since : Nat]
  /\ Ses_counter \in [n : Nat, expires : BOOLEAN]
  /\ Ses_call \in [Ses_Callers -> SesCall]
  /\ Ses_store \in 0..Ses_MaxTokens /\ Ses_minted \in 0..Ses_MaxTokens
  /\ Ses_admin \in {"idle", "requiring"} /\ Ses_epoch \in Nat /\ Ses_wrong \in Nat
  /\ Ses_rare \subseteq Ses!Rare

(* Nobody has read an epoch that is still to come. *)
PastEpochs ==
  /\ Ses_hash.since <= Ses_epoch
  /\ \A c \in Ses_Callers : Ses_call[c].since <= Ses_epoch

(* Requests between the check of the counter and their own count in it. *)
Passed == {c \in Ses_Callers : Ses_call[c].at \in {"checked", "wrong"}}
Uncounted == {c \in Ses_Callers : Ses_call[c].at = "wrong"}

(* A request passes the check while fewer than MAX_ATTEMPTS are counted; the one time Redis does *)
(* not answer it passes anyway. *)
CountBounded ==
  /\ Ses_counter.n + Cardinality(Passed) <= Ses_MAX_ATTEMPTS + Cardinality(Ses_Callers)
  /\ "redis" \notin Ses_rare =>
       Ses_counter.n + Cardinality(Passed) < Ses_MAX_ATTEMPTS + Cardinality(Ses_Callers)

(* A wrong code that was looked at is counted, or is about to be. *)
WrongCounted ==
  Ses!Without({"redis", "crash"}) => Ses_wrong <= Ses_counter.n + Cardinality(Uncounted)

(* What a request and the row show of events that happened. *)
Traces ==
  /\ \A c \in Ses_Callers :
       /\ Ses_call[c].at = "idle" <=> Ses_call[c].flow = "none"
       /\ Ses_call[c].at \in {"sent", "denied"} => Ses_call[c].flow = "refresh"
       /\ Ses_call[c].at \in {"leaving", "left"} => "logout" \in Ses_rare
       /\ Ses_call[c].flow = "logout" => "logout" \in Ses_rare
       /\ Ses_call[c].at # "idle" /\ Ses_TabOf[c] # Ses_FirstTab => "secondtab" \in Ses_rare
  /\ Ses_account.disabled => "disable" \in Ses_rare
  /\ Ses_admin = "requiring" => "require" \in Ses_rare

(* While nothing revokes the session and no answer is lost, one request at a time uses or        *)
(* replaces the token: the store and the row differ only until its answer arrives. *)
Calm == Ses!Without(Ses!Revocations \cup Ses!Failures \cup {"elsewhere", "secondtab"})
OneAtATime ==
  Calm => \A c, d \in Ses_Callers :
            c # d => Ses_call[c].at = "idle" \/ Ses_call[d].at = "idle"
TokenKept ==
  Calm =>
    /\ (\A c \in Ses_Callers : Ses_call[c].at # "answer") => Ses_store = Ses_hash.tok
    /\ \A c \in Ses_Callers :
         /\ Ses_call[c].at # "denied"
         /\ Ses_call[c].at = "answer" => Ses_call[c].tok = Ses_hash.tok
         /\ Ses_call[c].at = "sent" => Ses_call[c].tok = Ses_hash.tok
         /\ Ses_call[c].flow \in {"login", "verify", "setup"} => Ses_store = 0

SessionsIInv ==
  SesTypes /\ PastEpochs /\ CountBounded /\ WrongCounted /\ Traces /\ OneAtATime /\ TokenKept


(* Sets of requests, and how they grow and shrink. *)
LEMMA SubsetSizes ==
  ASSUME SessionsAssumption, NEW S \in SUBSET Ses_Callers
  PROVE  /\ Cardinality(Ses_Callers) \in Nat /\ Cardinality(S) \in Nat
         /\ Cardinality(S) <= Cardinality(Ses_Callers)
         /\ \A c \in Ses_Callers \ S : Cardinality(S \cup {c}) = Cardinality(S) + 1
         /\ \A c \in S : Cardinality(S \ {c}) = Cardinality(S) - 1
<1>1. IsFiniteSet(Ses_Callers) /\ IsFiniteSet(S) /\ Cardinality(S) <= Cardinality(Ses_Callers)
  BY FS_Subset DEF SessionsAssumption
<1>2. Cardinality(Ses_Callers) \in Nat /\ Cardinality(S) \in Nat
  BY <1>1, FS_CardinalityType
<1>3. \A c : Cardinality(S \cup {c}) = IF c \in S THEN Cardinality(S) ELSE Cardinality(S) + 1
  BY <1>1, FS_AddElement
<1>4. \A c : Cardinality(S \ {c}) = IF c \in S THEN Cardinality(S) - 1 ELSE Cardinality(S)
  BY <1>1, FS_RemoveElement
<1> QED
  BY <1>1, <1>2, <1>3, <1>4

LEMMA PassedSizes ==
  ASSUME SessionsAssumption
  PROVE  /\ Cardinality(Ses_Callers) \in Nat /\ Cardinality({}) = 0
         /\ Cardinality(Passed) \in Nat /\ Cardinality(Passed) <= Cardinality(Ses_Callers)
         /\ Cardinality(Uncounted) \in Nat /\ Cardinality(Uncounted) <= Cardinality(Passed)
         /\ \A c \in Ses_Callers \ Passed :
              /\ Cardinality(Passed \cup {c}) = Cardinality(Passed) + 1
              /\ Cardinality(Passed \cup {c}) <= Cardinality(Ses_Callers)
         /\ \A c \in Passed : Cardinality(Passed \ {c}) = Cardinality(Passed) - 1
         /\ \A c \in Ses_Callers \ Uncounted :
              Cardinality(Uncounted \cup {c}) = Cardinality(Uncounted) + 1
         /\ \A c \in Uncounted : Cardinality(Uncounted \ {c}) = Cardinality(Uncounted) - 1
<1>1. Passed \in SUBSET Ses_Callers /\ Uncounted \in SUBSET Ses_Callers /\
        Uncounted \in SUBSET Passed
  BY DEF Passed, Uncounted
<1>2. \A c \in Ses_Callers : Passed \cup {c} \in SUBSET Ses_Callers
  BY <1>1
<1>3. \A c \in Ses_Callers : Cardinality(Passed \cup {c}) <= Cardinality(Ses_Callers)
  BY <1>2, SubsetSizes
<1>4. IsFiniteSet(Passed)
  BY <1>1, FS_Subset DEF SessionsAssumption
<1>5. Cardinality(Uncounted) <= Cardinality(Passed) /\ Cardinality({}) = 0
  BY <1>1, <1>4, FS_Subset, FS_EmptySet
<1> QED
  BY <1>1, <1>3, <1>5, SubsetSizes

LEMMA SameCardinality == \A S : Ses!Cardinality(S) = Cardinality(S)
BY DEF Ses!Cardinality, Cardinality

LEMMA LoginKeeps ==
  ASSUME SessionsAssumption, SessionsIInv, NEW c \in Ses_Callers, Ses!Login(c)
  PROVE  SessionsIInv'
<1>1. /\ Ses_call[c].at = "idle" /\ Ses_store = 0
      /\ (Ses_TabOf[c] = Ses_FirstTab \/ "secondtab" \in Ses_rare)
      /\ \A d \in Ses_Callers \ {c} : Ses_TabOf[d] = Ses_TabOf[c] => Ses_call[d].at = "idle"
      /\ Ses_call'[c].at \in {"code", "issue"} /\ Ses_call'[c].flow \in {"login", "verify", "setup"}
      /\ Ses_call'[c].since = Ses_epoch
      /\ Ses_call' \in [Ses_Callers -> SesCall]
      /\ \A d \in Ses_Callers \ {c} : Ses_call'[d] = Ses_call[d]
      /\ Ses_call'[c].tok = 0
      /\ UNCHANGED <<Ses_account, Ses_hash, Ses_counter, Ses_store, Ses_minted, Ses_admin,
           Ses_epoch, Ses_wrong, Ses_rare>>
  BY SessionsAssumption DEF SessionsIInv, Ses!Login, Ses!vars, Ses!server, Ses!browser, Ses!lockout,
     Ses!Goes, Ses!Ends, Ses!NoCall, Ses!Rarely, Ses!Open, SesTypes, SesCall, SessionsAssumption
<1>2. Passed' = Passed /\ Uncounted' = Uncounted
  BY <1>1 DEF SessionsIInv, SesTypes, SesCall, Passed, Uncounted
<1>3. SesTypes'
  BY <1>1 DEF SessionsIInv, SesTypes, Ses!Rare, Ses!Revocations, Ses!Failures
<1>4. PastEpochs'
  BY <1>1 DEF SessionsIInv, SesTypes, SesCall, PastEpochs
<1>5. CountBounded'
  BY <1>1, <1>2, PassedSizes, SessionsAssumption DEF SessionsIInv, SesTypes, CountBounded
<1>6. WrongCounted'
  BY <1>1, <1>2, PassedSizes, SessionsAssumption DEF SessionsIInv, SesTypes, WrongCounted,
     Ses!Without
<1>7. Traces'
  BY <1>1 DEF SessionsIInv, SesTypes, Traces
<1>8. Calm' => Calm
  BY <1>1 DEF Calm, Ses!Without
<1>9. OneAtATime'
  BY <1>1, <1>8 DEF SessionsIInv, SesTypes, OneAtATime, TokenKept, Traces, Calm, Ses!Without
<1>10. TokenKept'
  BY <1>1, <1>8 DEF SessionsIInv, SesTypes, SesCall, TokenKept, OneAtATime, Traces, Calm,
     Ses!Without, Ses!Revocations
<1> QED
  BY <1>3, <1>4, <1>5, <1>6, <1>7, <1>9, <1>10 DEF SessionsIInv

LEMMA IssueKeeps ==
  ASSUME SessionsAssumption, SessionsIInv, NEW c \in Ses_Callers, Ses!Issue(c)
  PROVE  SessionsIInv'
<1>1. /\ Ses_call[c].at = "issue"
      /\ Ses_hash'.since = Ses_call[c].since
      /\ Ses_hash'.tok = Ses_minted'
      /\ Ses_hash' \in [tok : 0..Ses_MaxTokens, since : Nat]
      /\ Ses_minted' \in 0..Ses_MaxTokens
      /\ Ses_call' \in [Ses_Callers -> SesCall]
      /\ \A d \in Ses_Callers \ {c} : Ses_call'[d] = Ses_call[d]
      /\ Ses_call'[c].at = "answer"
      /\ Ses_call'[c].flow = Ses_call[c].flow
      /\ Ses_call'[c].tok = Ses_minted'
      /\ Ses_call'[c].since = Ses_call[c].since
      /\ UNCHANGED <<Ses_account, Ses_counter, Ses_store, Ses_admin, Ses_epoch, Ses_wrong,
           Ses_rare>>
  <2>1. PICK n \in {Ses_minted, Ses_minted + 1} \cap (1..Ses_MaxTokens) :
          /\ Ses_minted' = n /\ Ses_hash' = [tok |-> n, since |-> Ses_call[c].since]
          /\ Ses_call' = [Ses_call EXCEPT ![c].at = "answer", ![c].tok = n]
    BY DEF Ses!Issue
  <2>2. n \in 0..Ses_MaxTokens /\ Ses_call[c] \in SesCall
    BY <2>1, SessionsAssumption DEF SessionsIInv, SesTypes
  <2>3. [Ses_call[c] EXCEPT !.at = "answer", !.tok = n] \in SesCall
    BY <2>2 DEF SesCall
  <2>4. Ses_call' = [Ses_call EXCEPT ![c] = [Ses_call[c] EXCEPT !.at = "answer", !.tok = n]]
    BY <2>1 DEF SessionsIInv, SesTypes
  <2>5. Ses_hash' \in [tok : 0..Ses_MaxTokens, since : Nat]
    BY <2>1, <2>2 DEF SesCall
  <2>6. /\ Ses_call' \in [Ses_Callers -> SesCall]
        /\ \A d \in Ses_Callers \ {c} : Ses_call'[d] = Ses_call[d]
        /\ Ses_call'[c] = [Ses_call[c] EXCEPT !.at = "answer", !.tok = n]
    BY <2>2, <2>3, <2>4 DEF SessionsIInv, SesTypes
  <2>7. /\ Ses_call'[c].at = "answer" /\ Ses_call'[c].tok = n
        /\ Ses_call'[c].flow = Ses_call[c].flow /\ Ses_call'[c].since = Ses_call[c].since
    BY <2>2, <2>6 DEF SesCall
  <2> QED
    BY <2>1, <2>2, <2>5, <2>6, <2>7 DEF Ses!Issue, Ses!lockout
<1>2. Passed' = Passed /\ Uncounted' = Uncounted
  BY <1>1 DEF SessionsIInv, SesTypes, SesCall, Passed, Uncounted
<1>3. SesTypes'
  BY <1>1 DEF SessionsIInv, SesTypes, Ses!Rare, Ses!Revocations, Ses!Failures
<1>4. PastEpochs'
  BY <1>1 DEF SessionsIInv, SesTypes, SesCall, PastEpochs
<1>5. CountBounded'
  BY <1>1, <1>2, PassedSizes, SessionsAssumption DEF SessionsIInv, SesTypes, CountBounded
<1>6. WrongCounted'
  BY <1>1, <1>2, PassedSizes, SessionsAssumption DEF SessionsIInv, SesTypes, WrongCounted,
     Ses!Without
<1>7. Traces'
  BY <1>1 DEF SessionsIInv, SesTypes, Traces
<1>8. Calm' => Calm
  BY <1>1 DEF Calm, Ses!Without
<1>9. OneAtATime'
  BY <1>1, <1>8 DEF SessionsIInv, SesTypes, OneAtATime, TokenKept, Traces, Calm, Ses!Without
<1>10. TokenKept'
  BY <1>1, <1>8 DEF SessionsIInv, SesTypes, SesCall, TokenKept, OneAtATime, Traces, Calm,
     Ses!Without, Ses!Revocations
<1> QED
  BY <1>3, <1>4, <1>5, <1>6, <1>7, <1>9, <1>10 DEF SessionsIInv

LEMMA RefreshKeeps ==
  ASSUME SessionsAssumption, SessionsIInv, NEW c \in Ses_Callers, Ses!Refresh(c)
  PROVE  SessionsIInv'
<1>1. /\ Ses_call[c].at = "sent"
      /\ \/ ~Ses_account.disabled /\ Ses_hash.tok = Ses_call[c].tok /\ Ses_call'[c].at = "issue" /\
           Ses_call'[c].since = Ses_epoch
         \/ (Ses_account.disabled \/ Ses_hash.tok # Ses_call[c].tok) /\
              Ses_call'[c].at = "denied" /\ Ses_call'[c].since = Ses_call[c].since
      /\ Ses_call' \in [Ses_Callers -> SesCall]
      /\ \A d \in Ses_Callers \ {c} : Ses_call'[d] = Ses_call[d]
      /\ Ses_call'[c].flow = Ses_call[c].flow
      /\ Ses_call'[c].tok = Ses_call[c].tok
      /\ UNCHANGED <<Ses_account, Ses_hash, Ses_counter, Ses_store, Ses_minted, Ses_admin,
           Ses_epoch, Ses_wrong, Ses_rare>>
  <2>1. CASE ~Ses_account.disabled /\ Ses_hash.tok = Ses_call[c].tok
    BY <2>1, SessionsAssumption DEF SessionsIInv, Ses!Refresh, Ses!vars, Ses!server, Ses!browser,
       Ses!lockout, Ses!Goes, Ses!Ends, Ses!NoCall, Ses!Rarely, Ses!Open, SesTypes, SesCall,
       SessionsAssumption
  <2>2. CASE ~(~Ses_account.disabled /\ Ses_hash.tok = Ses_call[c].tok)
    BY <2>2, SessionsAssumption DEF SessionsIInv, Ses!Refresh, Ses!vars, Ses!server, Ses!browser,
       Ses!lockout, Ses!Goes, Ses!Ends, Ses!NoCall, Ses!Rarely, Ses!Open, SesTypes, SesCall,
       SessionsAssumption
  <2> QED
    BY <2>1, <2>2 DEF Ses!Refresh
<1>2. Passed' = Passed /\ Uncounted' = Uncounted
  BY <1>1 DEF SessionsIInv, SesTypes, SesCall, Passed, Uncounted
<1>3. SesTypes'
  BY <1>1 DEF SessionsIInv, SesTypes, Ses!Rare, Ses!Revocations, Ses!Failures
<1>4. PastEpochs'
  BY <1>1 DEF SessionsIInv, SesTypes, SesCall, PastEpochs
<1>5. CountBounded'
  BY <1>1, <1>2, PassedSizes, SessionsAssumption DEF SessionsIInv, SesTypes, CountBounded
<1>6. WrongCounted'
  BY <1>1, <1>2, PassedSizes, SessionsAssumption DEF SessionsIInv, SesTypes, WrongCounted,
     Ses!Without
<1>7. Traces'
  BY <1>1 DEF SessionsIInv, SesTypes, Traces
<1>8. Calm' => Calm
  BY <1>1 DEF Calm, Ses!Without
<1>9. OneAtATime'
  BY <1>1, <1>8 DEF SessionsIInv, SesTypes, OneAtATime, TokenKept, Traces, Calm, Ses!Without
<1>10. TokenKept'
  BY <1>1, <1>8 DEF SessionsIInv, SesTypes, SesCall, TokenKept, OneAtATime, Traces, Calm,
     Ses!Without, Ses!Revocations
<1> QED
  BY <1>3, <1>4, <1>5, <1>6, <1>7, <1>9, <1>10 DEF SessionsIInv

LEMMA LogoutKeeps ==
  ASSUME SessionsAssumption, SessionsIInv, NEW c \in Ses_Callers, Ses!Logout(c)
  PROVE  SessionsIInv'
<1>1. /\ Ses_call[c].at = "leaving"
      /\ Ses_hash' \in [tok : 0..Ses_MaxTokens, since : Nat]
      /\ Ses_epoch' \in Nat
      /\ Ses_hash' = Ses_hash \/ Ses_hash'.since = 0
      /\ Ses_epoch' >= Ses_epoch
      /\ Ses_call' \in [Ses_Callers -> SesCall]
      /\ \A d \in Ses_Callers \ {c} : Ses_call'[d] = Ses_call[d]
      /\ Ses_call'[c].at = "left"
      /\ Ses_call'[c].flow = Ses_call[c].flow
      /\ Ses_call'[c].tok = Ses_call[c].tok
      /\ Ses_call'[c].since = Ses_call[c].since
      /\ UNCHANGED <<Ses_account, Ses_counter, Ses_store, Ses_minted, Ses_admin, Ses_wrong,
           Ses_rare>>
  BY SessionsAssumption DEF SessionsIInv, Ses!Logout, Ses!vars, Ses!server, Ses!browser,
     Ses!lockout, Ses!Goes, Ses!Ends, Ses!NoCall, Ses!Rarely, Ses!Open, SesTypes, SesCall,
     SessionsAssumption, Ses!NoToken
<1>2. Passed' = Passed /\ Uncounted' = Uncounted
  BY <1>1 DEF SessionsIInv, SesTypes, SesCall, Passed, Uncounted
<1>3. SesTypes'
  BY <1>1 DEF SessionsIInv, SesTypes, Ses!Rare, Ses!Revocations, Ses!Failures
<1>4. PastEpochs'
  BY <1>1 DEF SessionsIInv, SesTypes, SesCall, PastEpochs
<1>5. CountBounded'
  BY <1>1, <1>2, PassedSizes, SessionsAssumption DEF SessionsIInv, SesTypes, CountBounded
<1>6. WrongCounted'
  BY <1>1, <1>2, PassedSizes, SessionsAssumption DEF SessionsIInv, SesTypes, WrongCounted,
     Ses!Without
<1>7. Traces'
  BY <1>1 DEF SessionsIInv, SesTypes, Traces
<1>8. ~Calm'
  BY <1>1 DEF SessionsIInv, Traces, Calm, Ses!Without, Ses!Revocations, Ses!Failures
<1>9. OneAtATime' /\ TokenKept'
  BY <1>8 DEF OneAtATime, TokenKept
<1> QED
  BY <1>3, <1>4, <1>5, <1>6, <1>7, <1>9 DEF SessionsIInv

LEMMA AssertNotLockedOutKeeps ==
  ASSUME SessionsAssumption, SessionsIInv, NEW c \in Ses_Callers, Ses!AssertNotLockedOut(c)
  PROVE  SessionsIInv'
<1>1. /\ Ses_call[c].at = "code"
      /\ \/ Ses_counter.n < Ses_MAX_ATTEMPTS /\ Ses_rare' = Ses_rare
         \/ "redis" \notin Ses_rare /\ Ses_rare' = Ses_rare \cup {"redis"}
      /\ Ses_call' \in [Ses_Callers -> SesCall]
      /\ \A d \in Ses_Callers \ {c} : Ses_call'[d] = Ses_call[d]
      /\ Ses_call'[c].at = "checked"
      /\ Ses_call'[c].flow = Ses_call[c].flow
      /\ Ses_call'[c].tok = Ses_call[c].tok
      /\ Ses_call'[c].since = Ses_call[c].since
      /\ UNCHANGED <<Ses_account, Ses_hash, Ses_counter, Ses_store, Ses_minted, Ses_admin,
           Ses_epoch, Ses_wrong>>
  <2>1. CASE Ses_counter.n < Ses_MAX_ATTEMPTS /\ UNCHANGED Ses_rare
    BY <2>1, SessionsAssumption DEF SessionsIInv, Ses!AssertNotLockedOut, Ses!vars, Ses!server,
       Ses!browser, Ses!lockout, Ses!Goes, Ses!Ends, Ses!NoCall, Ses!Rarely, Ses!Open, SesTypes,
       SesCall, SessionsAssumption
  <2>2. CASE Ses_counter.n >= Ses_MAX_ATTEMPTS /\ Ses!Rarely("redis")
    BY <2>2, SessionsAssumption DEF SessionsIInv, Ses!AssertNotLockedOut, Ses!vars, Ses!server,
       Ses!browser, Ses!lockout, Ses!Goes, Ses!Ends, Ses!NoCall, Ses!Rarely, Ses!Open, SesTypes,
       SesCall, SessionsAssumption
  <2> QED
    BY <2>1, <2>2 DEF Ses!AssertNotLockedOut
<1>2. c \notin Passed /\ Passed' = Passed \cup {c} /\ Uncounted' = Uncounted
  BY <1>1 DEF SessionsIInv, SesTypes, SesCall, Passed, Uncounted
<1>3. SesTypes'
  BY <1>1 DEF SessionsIInv, SesTypes, Ses!Rare, Ses!Revocations, Ses!Failures
<1>4. PastEpochs'
  BY <1>1 DEF SessionsIInv, SesTypes, SesCall, PastEpochs
<1>5. CountBounded'
  BY <1>1, <1>2, PassedSizes, SessionsAssumption DEF SessionsIInv, SesTypes, CountBounded
<1>6. WrongCounted'
  BY <1>1, <1>2, PassedSizes, SessionsAssumption DEF SessionsIInv, SesTypes, WrongCounted,
     Ses!Without
<1>7. Traces'
  BY <1>1 DEF SessionsIInv, SesTypes, Traces
<1>8. Calm' => Calm
  BY <1>1 DEF Calm, Ses!Without
<1>9. OneAtATime'
  BY <1>1, <1>8 DEF SessionsIInv, SesTypes, OneAtATime, TokenKept, Traces, Calm, Ses!Without
<1>10. TokenKept'
  BY <1>1, <1>8 DEF SessionsIInv, SesTypes, SesCall, TokenKept, OneAtATime, Traces, Calm,
     Ses!Without, Ses!Revocations
<1> QED
  BY <1>3, <1>4, <1>5, <1>6, <1>7, <1>9, <1>10 DEF SessionsIInv

LEMMA VerifyCodeKeeps ==
  ASSUME SessionsAssumption, SessionsIInv, NEW c \in Ses_Callers, Ses!VerifyCode(c)
  PROVE  SessionsIInv'
<1>1. /\ Ses_call[c].at = "checked"
      /\ \/ Ses_call'[c].at = "wrong" /\ Ses_wrong' = Ses_wrong + 1
         \/ Ses_call'[c].at = "right" /\ Ses_wrong' = Ses_wrong
      /\ Ses_call' \in [Ses_Callers -> SesCall]
      /\ \A d \in Ses_Callers \ {c} : Ses_call'[d] = Ses_call[d]
      /\ Ses_call'[c].flow = Ses_call[c].flow
      /\ Ses_call'[c].tok = Ses_call[c].tok
      /\ Ses_call'[c].since = Ses_call[c].since
      /\ UNCHANGED <<Ses_account, Ses_hash, Ses_counter, Ses_store, Ses_minted, Ses_admin,
           Ses_epoch, Ses_rare>>
  <2>1. CASE Ses!Goes(c, "wrong") /\ Ses_wrong' = Ses_wrong + 1
    BY <2>1, SessionsAssumption DEF SessionsIInv, Ses!VerifyCode, Ses!vars, Ses!server, Ses!browser,
       Ses!lockout, Ses!Goes, Ses!Ends, Ses!NoCall, Ses!Rarely, Ses!Open, SesTypes, SesCall,
       SessionsAssumption
  <2>2. CASE Ses!Goes(c, "right") /\ UNCHANGED Ses_wrong
    BY <2>2, SessionsAssumption DEF SessionsIInv, Ses!VerifyCode, Ses!vars, Ses!server, Ses!browser,
       Ses!lockout, Ses!Goes, Ses!Ends, Ses!NoCall, Ses!Rarely, Ses!Open, SesTypes, SesCall,
       SessionsAssumption
  <2> QED
    BY <2>1, <2>2 DEF Ses!VerifyCode
<1>2. \/ /\ Ses_wrong' = Ses_wrong + 1 /\ Passed' = Passed
         /\ c \notin Uncounted /\ Uncounted' = Uncounted \cup {c}
      \/ Ses_wrong' = Ses_wrong /\ Passed' = Passed \ {c} /\ Uncounted' = Uncounted
  BY <1>1 DEF SessionsIInv, SesTypes, SesCall, Passed, Uncounted
<1>3. SesTypes'
  BY <1>1 DEF SessionsIInv, SesTypes, Ses!Rare, Ses!Revocations, Ses!Failures
<1>4. PastEpochs'
  BY <1>1 DEF SessionsIInv, SesTypes, SesCall, PastEpochs
<1>5. CountBounded'
  <2>1. c \in Passed
    BY <1>1 DEF Passed
  <2>2. Cardinality(Passed') <= Cardinality(Passed) /\ Cardinality(Passed') \in Nat
    <3>1. Passed' = Passed \/ Passed' = Passed \ {c}
      BY <1>2
    <3>2. CASE Passed' = Passed
      BY <3>2, PassedSizes
    <3>3. CASE Passed' = Passed \ {c}
      <4>1. Passed \ {c} \in SUBSET Ses_Callers
        BY DEF Passed
      <4>2. Cardinality(Passed \ {c}) \in Nat
        BY <4>1, SubsetSizes
      <4> QED
        BY <2>1, <3>3, <4>2, PassedSizes
    <3> QED
      BY <3>1, <3>2, <3>3
  <2>3. CountBounded' = (/\ Ses_counter.n + Cardinality(Passed') <= Ses_MAX_ATTEMPTS + Cardinality(Ses_Callers)
                         /\ "redis" \notin Ses_rare =>
                              Ses_counter.n + Cardinality(Passed') < Ses_MAX_ATTEMPTS + Cardinality(Ses_Callers))
    BY <1>1 DEF CountBounded
  <2> QED
    BY <2>2, <2>3, PassedSizes, SessionsAssumption DEF SessionsIInv, SesTypes, CountBounded
<1>6. WrongCounted'
  BY <1>1, <1>2, PassedSizes, SessionsAssumption DEF SessionsIInv, SesTypes, WrongCounted,
     Ses!Without
<1>7. Traces'
  BY <1>1 DEF SessionsIInv, SesTypes, Traces
<1>8. Calm' => Calm
  BY <1>1 DEF Calm, Ses!Without
<1>9. OneAtATime'
  BY <1>1, <1>8 DEF SessionsIInv, SesTypes, OneAtATime, TokenKept, Traces, Calm, Ses!Without
<1>10. TokenKept'
  BY <1>1, <1>8 DEF SessionsIInv, SesTypes, SesCall, TokenKept, OneAtATime, Traces, Calm,
     Ses!Without, Ses!Revocations
<1> QED
  BY <1>3, <1>4, <1>5, <1>6, <1>7, <1>9, <1>10 DEF SessionsIInv

LEMMA RecordFailureKeeps ==
  ASSUME SessionsAssumption, SessionsIInv, NEW c \in Ses_Callers, Ses!RecordFailure(c)
  PROVE  SessionsIInv'
<1>1. /\ Ses_call[c].at = "wrong"
      /\ Ses_call'[c].at \in {"expiring", "code"}
      /\ Ses_counter' \in [n : Nat, expires : BOOLEAN]
      /\ \/ Ses_counter'.n = Ses_counter.n + 1 /\ Ses_rare' = Ses_rare
         \/ Ses_counter'.n = Ses_counter.n /\ "redis" \notin Ses_rare /\
              Ses_rare' = Ses_rare \cup {"redis"}
      /\ Ses_call' \in [Ses_Callers -> SesCall]
      /\ \A d \in Ses_Callers \ {c} : Ses_call'[d] = Ses_call[d]
      /\ Ses_call'[c].flow = Ses_call[c].flow
      /\ Ses_call'[c].tok = Ses_call[c].tok
      /\ Ses_call'[c].since = Ses_call[c].since
      /\ UNCHANGED <<Ses_account, Ses_hash, Ses_store, Ses_minted, Ses_admin, Ses_epoch, Ses_wrong>>
  <2>1. CASE /\ Ses_counter' = [Ses_counter EXCEPT !.n = @ + 1]
            /\ Ses!Goes(c, IF Ses_counter.n = 0 THEN "expiring" ELSE "code")
            /\ UNCHANGED Ses_rare
    BY <2>1, SessionsAssumption DEF SessionsIInv, Ses!RecordFailure, Ses!vars, Ses!server,
       Ses!browser, Ses!lockout, Ses!Goes, Ses!Ends, Ses!NoCall, Ses!Rarely, Ses!Open, SesTypes,
       SesCall, SessionsAssumption
  <2>2. CASE Ses!Rarely("redis") /\ Ses!Goes(c, "code") /\ UNCHANGED Ses_counter
    BY <2>2, SessionsAssumption DEF SessionsIInv, Ses!RecordFailure, Ses!vars, Ses!server,
       Ses!browser, Ses!lockout, Ses!Goes, Ses!Ends, Ses!NoCall, Ses!Rarely, Ses!Open, SesTypes,
       SesCall, SessionsAssumption
  <2> QED
    BY <2>1, <2>2 DEF Ses!RecordFailure
<1>2. /\ c \in Passed /\ Passed' = Passed \ {c}
      /\ c \in Uncounted /\ Uncounted' = Uncounted \ {c}
  BY <1>1 DEF SessionsIInv, SesTypes, SesCall, Passed, Uncounted
<1>3. SesTypes'
  BY <1>1 DEF SessionsIInv, SesTypes, Ses!Rare, Ses!Revocations, Ses!Failures
<1>4. PastEpochs'
  BY <1>1 DEF SessionsIInv, SesTypes, SesCall, PastEpochs
<1>5. CountBounded'
  BY <1>1, <1>2, PassedSizes, SessionsAssumption DEF SessionsIInv, SesTypes, CountBounded
<1>6. WrongCounted'
  BY <1>1, <1>2, PassedSizes, SessionsAssumption DEF SessionsIInv, SesTypes, WrongCounted,
     Ses!Without
<1>7. Traces'
  BY <1>1 DEF SessionsIInv, SesTypes, Traces
<1>8. Calm' => Calm
  BY <1>1 DEF Calm, Ses!Without
<1>9. OneAtATime'
  BY <1>1, <1>8 DEF SessionsIInv, SesTypes, OneAtATime, TokenKept, Traces, Calm, Ses!Without
<1>10. TokenKept'
  BY <1>1, <1>8 DEF SessionsIInv, SesTypes, SesCall, TokenKept, OneAtATime, Traces, Calm,
     Ses!Without, Ses!Revocations
<1> QED
  BY <1>3, <1>4, <1>5, <1>6, <1>7, <1>9, <1>10 DEF SessionsIInv

LEMMA SetExpiryKeeps ==
  ASSUME SessionsAssumption, SessionsIInv, NEW c \in Ses_Callers, Ses!SetExpiry(c)
  PROVE  SessionsIInv'
<1>1. /\ Ses_call[c].at = "expiring"
      /\ Ses_counter' \in [n : Nat, expires : BOOLEAN] /\ Ses_counter'.n = Ses_counter.n
      /\ Ses_rare' = Ses_rare \/ ("redis" \notin Ses_rare /\ Ses_rare' = Ses_rare \cup {"redis"})
      /\ Ses_call' \in [Ses_Callers -> SesCall]
      /\ \A d \in Ses_Callers \ {c} : Ses_call'[d] = Ses_call[d]
      /\ Ses_call'[c].at = "code"
      /\ Ses_call'[c].flow = Ses_call[c].flow
      /\ Ses_call'[c].tok = Ses_call[c].tok
      /\ Ses_call'[c].since = Ses_call[c].since
      /\ UNCHANGED <<Ses_account, Ses_hash, Ses_store, Ses_minted, Ses_admin, Ses_epoch, Ses_wrong>>
  <2>1. CASE Ses_counter' = [Ses_counter EXCEPT !.expires = Ses_counter.n > 0] /\ UNCHANGED Ses_rare
    <3>1. (Ses_counter.n > 0) \in BOOLEAN
      OBVIOUS
    <3>2. Ses_counter' = [n |-> Ses_counter.n, expires |-> Ses_counter.n > 0]
      BY <2>1 DEF SessionsIInv, SesTypes
    <3>3. Ses_counter' \in [n : Nat, expires : BOOLEAN] /\ Ses_counter'.n = Ses_counter.n
      BY <3>1, <3>2 DEF SessionsIInv, SesTypes
    <3> HIDE <2>1
    <3> QED
      BY <2>1, <3>3, SessionsAssumption DEF SessionsIInv, Ses!SetExpiry, Ses!vars, Ses!server,
         Ses!browser, Ses!lockout, Ses!Goes, Ses!Ends, Ses!NoCall, Ses!Rarely, Ses!Open, SesTypes,
         SesCall, SessionsAssumption
  <2>2. CASE Ses!Rarely("redis") /\ UNCHANGED Ses_counter
    BY <2>2, SessionsAssumption DEF SessionsIInv, Ses!SetExpiry, Ses!vars, Ses!server, Ses!browser,
       Ses!lockout, Ses!Goes, Ses!Ends, Ses!NoCall, Ses!Rarely, Ses!Open, SesTypes, SesCall,
       SessionsAssumption
  <2> QED
    BY <2>1, <2>2 DEF Ses!SetExpiry
<1>2. Passed' = Passed /\ Uncounted' = Uncounted
  BY <1>1 DEF SessionsIInv, SesTypes, SesCall, Passed, Uncounted
<1>3. SesTypes'
  BY <1>1 DEF SessionsIInv, SesTypes, Ses!Rare, Ses!Revocations, Ses!Failures
<1>4. PastEpochs'
  BY <1>1 DEF SessionsIInv, SesTypes, SesCall, PastEpochs
<1>5. CountBounded'
  BY <1>1, <1>2, PassedSizes, SessionsAssumption DEF SessionsIInv, SesTypes, CountBounded
<1>6. WrongCounted'
  BY <1>1, <1>2, PassedSizes, SessionsAssumption DEF SessionsIInv, SesTypes, WrongCounted,
     Ses!Without
<1>7. Traces'
  BY <1>1 DEF SessionsIInv, SesTypes, Traces
<1>8. Calm' => Calm
  BY <1>1 DEF Calm, Ses!Without
<1>9. OneAtATime'
  BY <1>1, <1>8 DEF SessionsIInv, SesTypes, OneAtATime, TokenKept, Traces, Calm, Ses!Without
<1>10. TokenKept'
  BY <1>1, <1>8 DEF SessionsIInv, SesTypes, SesCall, TokenKept, OneAtATime, Traces, Calm,
     Ses!Without, Ses!Revocations
<1> QED
  BY <1>3, <1>4, <1>5, <1>6, <1>7, <1>9, <1>10 DEF SessionsIInv

LEMMA ClearKeeps ==
  ASSUME SessionsAssumption, SessionsIInv, NEW c \in Ses_Callers, Ses!Clear(c)
  PROVE  SessionsIInv'
<1>1. /\ Ses_call[c].at = "right"
      /\ Ses_call'[c].at \in {"enabling", "issue"}
      /\ Ses_counter' \in [n : Nat, expires : BOOLEAN]
      /\ \/ Ses_counter'.n = 0 /\ Ses_wrong' = 0 /\ Ses_rare' = Ses_rare
         \/ /\ Ses_counter' = Ses_counter /\ Ses_wrong' = Ses_wrong
            /\ "redis" \notin Ses_rare /\ Ses_rare' = Ses_rare \cup {"redis"}
      /\ Ses_call' \in [Ses_Callers -> SesCall]
      /\ \A d \in Ses_Callers \ {c} : Ses_call'[d] = Ses_call[d]
      /\ Ses_call'[c].flow = Ses_call[c].flow
      /\ Ses_call'[c].tok = Ses_call[c].tok
      /\ Ses_call'[c].since = Ses_call[c].since
      /\ UNCHANGED <<Ses_account, Ses_hash, Ses_store, Ses_minted, Ses_admin, Ses_epoch>>
  <2>1. CASE Ses_counter' = Ses!NoFailures /\ Ses_wrong' = 0 /\ UNCHANGED Ses_rare
    BY <2>1, SessionsAssumption DEF SessionsIInv, Ses!Clear, Ses!vars, Ses!server, Ses!browser,
       Ses!lockout, Ses!Goes, Ses!Ends, Ses!NoCall, Ses!Rarely, Ses!Open, SesTypes, SesCall,
       SessionsAssumption, Ses!NoFailures
  <2>2. CASE Ses!Rarely("redis") /\ UNCHANGED Ses!lockout
    BY <2>2, SessionsAssumption DEF SessionsIInv, Ses!Clear, Ses!vars, Ses!server, Ses!browser,
       Ses!lockout, Ses!Goes, Ses!Ends, Ses!NoCall, Ses!Rarely, Ses!Open, SesTypes, SesCall,
       SessionsAssumption, Ses!NoFailures
  <2> QED
    BY <2>1, <2>2 DEF Ses!Clear
<1>2. Passed' = Passed /\ Uncounted' = Uncounted
  BY <1>1 DEF SessionsIInv, SesTypes, SesCall, Passed, Uncounted
<1>3. SesTypes'
  <2>1. Ses_wrong' \in Nat /\ Ses_rare' \subseteq Ses!Rare
    BY <1>1 DEF SessionsIInv, SesTypes, Ses!Rare
  <2> QED
    BY <1>1, <2>1 DEF SessionsIInv, SesTypes
<1>4. PastEpochs'
  BY <1>1 DEF SessionsIInv, SesTypes, SesCall, PastEpochs
<1>5. CountBounded'
  BY <1>1, <1>2, PassedSizes, SessionsAssumption DEF SessionsIInv, SesTypes, CountBounded
<1>6. WrongCounted'
  BY <1>1, <1>2, PassedSizes, SessionsAssumption DEF SessionsIInv, SesTypes, WrongCounted,
     Ses!Without
<1>7. Traces'
  BY <1>1 DEF SessionsIInv, SesTypes, Traces
<1>8. Calm' => Calm
  BY <1>1 DEF Calm, Ses!Without
<1>9. OneAtATime'
  BY <1>1, <1>8 DEF SessionsIInv, SesTypes, OneAtATime, TokenKept, Traces, Calm, Ses!Without
<1>10. TokenKept'
  BY <1>1, <1>8 DEF SessionsIInv, SesTypes, SesCall, TokenKept, OneAtATime, Traces, Calm,
     Ses!Without, Ses!Revocations
<1> QED
  BY <1>3, <1>4, <1>5, <1>6, <1>7, <1>9, <1>10 DEF SessionsIInv

LEMMA EnableKeeps ==
  ASSUME SessionsAssumption, SessionsIInv, NEW c \in Ses_Callers, Ses!Enable(c)
  PROVE  SessionsIInv'
<1>1. /\ Ses_call[c].at = "enabling"
      /\ Ses_account' \in [disabled : BOOLEAN, required : BOOLEAN, secret : BOOLEAN] /\
           Ses_account'.disabled = Ses_account.disabled
      /\ Ses_call' \in [Ses_Callers -> SesCall]
      /\ \A d \in Ses_Callers \ {c} : Ses_call'[d] = Ses_call[d]
      /\ Ses_call'[c].at = "issue"
      /\ Ses_call'[c].flow = Ses_call[c].flow
      /\ Ses_call'[c].tok = Ses_call[c].tok
      /\ Ses_call'[c].since = Ses_call[c].since
      /\ UNCHANGED <<Ses_hash, Ses_counter, Ses_store, Ses_minted, Ses_admin, Ses_epoch, Ses_wrong,
           Ses_rare>>
  BY SessionsAssumption DEF SessionsIInv, Ses!Enable, Ses!vars, Ses!server, Ses!browser,
     Ses!lockout, Ses!Goes, Ses!Ends, Ses!NoCall, Ses!Rarely, Ses!Open, SesTypes, SesCall,
     SessionsAssumption
<1>2. Passed' = Passed /\ Uncounted' = Uncounted
  BY <1>1 DEF SessionsIInv, SesTypes, SesCall, Passed, Uncounted
<1>3. SesTypes'
  BY <1>1 DEF SessionsIInv, SesTypes, Ses!Rare, Ses!Revocations, Ses!Failures
<1>4. PastEpochs'
  BY <1>1 DEF SessionsIInv, SesTypes, SesCall, PastEpochs
<1>5. CountBounded'
  BY <1>1, <1>2, PassedSizes, SessionsAssumption DEF SessionsIInv, SesTypes, CountBounded
<1>6. WrongCounted'
  BY <1>1, <1>2, PassedSizes, SessionsAssumption DEF SessionsIInv, SesTypes, WrongCounted,
     Ses!Without
<1>7. Traces'
  BY <1>1 DEF SessionsIInv, SesTypes, Traces
<1>8. Calm' => Calm
  BY <1>1 DEF Calm, Ses!Without
<1>9. OneAtATime'
  BY <1>1, <1>8 DEF SessionsIInv, SesTypes, OneAtATime, TokenKept, Traces, Calm, Ses!Without
<1>10. TokenKept'
  BY <1>1, <1>8 DEF SessionsIInv, SesTypes, SesCall, TokenKept, OneAtATime, Traces, Calm,
     Ses!Without, Ses!Revocations
<1> QED
  BY <1>3, <1>4, <1>5, <1>6, <1>7, <1>9, <1>10 DEF SessionsIInv

LEMMA GiveUpKeeps ==
  ASSUME SessionsAssumption, SessionsIInv, NEW c \in Ses_Callers, Ses!GiveUp(c)
  PROVE  SessionsIInv'
<1>1. /\ Ses_call[c].at = "code"
      /\ Ses_call' \in [Ses_Callers -> SesCall]
      /\ \A d \in Ses_Callers \ {c} : Ses_call'[d] = Ses_call[d]
      /\ Ses_call'[c].at = "idle"
      /\ Ses_call'[c].flow = "none"
      /\ Ses_call'[c].tok = 0
      /\ Ses_call'[c].since = 0
      /\ UNCHANGED <<Ses_account, Ses_hash, Ses_counter, Ses_store, Ses_minted, Ses_admin,
           Ses_epoch, Ses_wrong, Ses_rare>>
  BY SessionsAssumption DEF SessionsIInv, Ses!GiveUp, Ses!vars, Ses!server, Ses!browser,
     Ses!lockout, Ses!Goes, Ses!Ends, Ses!NoCall, Ses!Rarely, Ses!Open, SesTypes, SesCall,
     SessionsAssumption
<1>2. Passed' = Passed /\ Uncounted' = Uncounted
  BY <1>1 DEF SessionsIInv, SesTypes, SesCall, Passed, Uncounted
<1>3. SesTypes'
  BY <1>1 DEF SessionsIInv, SesTypes, Ses!Rare, Ses!Revocations, Ses!Failures
<1>4. PastEpochs'
  BY <1>1 DEF SessionsIInv, SesTypes, SesCall, PastEpochs
<1>5. CountBounded'
  BY <1>1, <1>2, PassedSizes, SessionsAssumption DEF SessionsIInv, SesTypes, CountBounded
<1>6. WrongCounted'
  BY <1>1, <1>2, PassedSizes, SessionsAssumption DEF SessionsIInv, SesTypes, WrongCounted,
     Ses!Without
<1>7. Traces'
  BY <1>1 DEF SessionsIInv, SesTypes, Traces
<1>8. Calm' => Calm
  BY <1>1 DEF Calm, Ses!Without
<1>9. OneAtATime'
  BY <1>1, <1>8 DEF SessionsIInv, SesTypes, OneAtATime, TokenKept, Traces, Calm, Ses!Without
<1>10. TokenKept'
  BY <1>1, <1>8 DEF SessionsIInv, SesTypes, SesCall, TokenKept, OneAtATime, Traces, Calm,
     Ses!Without, Ses!Revocations
<1> QED
  BY <1>3, <1>4, <1>5, <1>6, <1>7, <1>9, <1>10 DEF SessionsIInv

LEMMA RefreshTokensKeeps ==
  ASSUME SessionsAssumption, SessionsIInv, NEW c \in Ses_Callers, Ses!RefreshTokens(c)
  PROVE  SessionsIInv'
<1>1. /\ Ses_call[c].at = "idle" /\ Ses_store # 0
      /\ (Ses_TabOf[c] = Ses_FirstTab \/ "secondtab" \in Ses_rare)
      /\ \A d \in Ses_Callers : Ses_TabOf[d] = Ses_TabOf[c] => Ses_call[d].flow # "refresh"
      /\ Ses_call' \in [Ses_Callers -> SesCall]
      /\ \A d \in Ses_Callers \ {c} : Ses_call'[d] = Ses_call[d]
      /\ Ses_call'[c].at = "sent"
      /\ Ses_call'[c].flow = "refresh"
      /\ Ses_call'[c].tok = Ses_store
      /\ Ses_call'[c].since = Ses_epoch
      /\ UNCHANGED <<Ses_account, Ses_hash, Ses_counter, Ses_store, Ses_minted, Ses_admin,
           Ses_epoch, Ses_wrong, Ses_rare>>
  BY SessionsAssumption DEF SessionsIInv, Ses!RefreshTokens, Ses!vars, Ses!server, Ses!browser,
     Ses!lockout, Ses!Goes, Ses!Ends, Ses!NoCall, Ses!Rarely, Ses!Open, SesTypes, SesCall,
     SessionsAssumption
<1>2. Passed' = Passed /\ Uncounted' = Uncounted
  BY <1>1 DEF SessionsIInv, SesTypes, SesCall, Passed, Uncounted
<1>3. SesTypes'
  BY <1>1 DEF SessionsIInv, SesTypes, Ses!Rare, Ses!Revocations, Ses!Failures
<1>4. PastEpochs'
  BY <1>1 DEF SessionsIInv, SesTypes, SesCall, PastEpochs
<1>5. CountBounded'
  BY <1>1, <1>2, PassedSizes, SessionsAssumption DEF SessionsIInv, SesTypes, CountBounded
<1>6. WrongCounted'
  BY <1>1, <1>2, PassedSizes, SessionsAssumption DEF SessionsIInv, SesTypes, WrongCounted,
     Ses!Without
<1>7. Traces'
  BY <1>1 DEF SessionsIInv, SesTypes, Traces
<1>8. Calm' => Calm
  BY <1>1 DEF Calm, Ses!Without
<1>9. OneAtATime'
  <2>1. SUFFICES ASSUME Calm, NEW d \in Ses_Callers \ {c} PROVE Ses_call[d].at = "idle"
    BY <1>1, <1>8 DEF OneAtATime
  <2>2. "secondtab" \notin Ses_rare
    BY <2>1 DEF Calm, Ses!Without
  <2>3. Ses_TabOf[c] = Ses_FirstTab
    BY <1>1, <2>2
  <2>4. SUFFICES ASSUME Ses_call[d].at # "idle" PROVE FALSE
    OBVIOUS
  <2>5. Ses_TabOf[d] = Ses_FirstTab
    BY <2>2, <2>4 DEF SessionsIInv, Traces
  <2>6. Ses_call[d].flow # "refresh" /\ Ses_call[d].flow # "none"
    BY <1>1, <2>3, <2>4, <2>5 DEF SessionsIInv, Traces
  <2>7. Ses_call[d].flow \in {"login", "verify", "setup"}
    <3>1. Ses_call[d] \in SesCall
      BY DEF SessionsIInv, SesTypes
    <3>2. Ses_call[d].flow # "logout"
      BY <2>1 DEF SessionsIInv, Traces, Calm, Ses!Without, Ses!Revocations
    <3> QED
      BY <2>6, <3>1, <3>2 DEF SesCall
  <2> QED
    BY <1>1, <2>1, <2>7 DEF SessionsIInv, TokenKept
<1>10. TokenKept'
  <2>1. Calm' => \A d \in Ses_Callers : Ses_call[d].at # "answer"
    BY <1>1, <1>9 DEF OneAtATime
  <2> QED
    BY <1>1, <1>8, <2>1 DEF SessionsIInv, SesTypes, TokenKept
<1> QED
  BY <1>3, <1>4, <1>5, <1>6, <1>7, <1>9, <1>10 DEF SessionsIInv

LEMMA AnswerKeeps ==
  ASSUME SessionsAssumption, SessionsIInv, NEW c \in Ses_Callers, Ses!Answer(c)
  PROVE  SessionsIInv'
<1>1. /\ Ses_call[c].at = "answer"
      /\ Ses_store' = Ses_call[c].tok
      /\ Ses_call' \in [Ses_Callers -> SesCall]
      /\ \A d \in Ses_Callers \ {c} : Ses_call'[d] = Ses_call[d]
      /\ Ses_call'[c].at = "idle"
      /\ Ses_call'[c].flow = "none"
      /\ Ses_call'[c].tok = 0
      /\ Ses_call'[c].since = 0
      /\ UNCHANGED <<Ses_account, Ses_hash, Ses_counter, Ses_minted, Ses_admin, Ses_epoch,
           Ses_wrong, Ses_rare>>
  BY SessionsAssumption DEF SessionsIInv, Ses!Answer, Ses!vars, Ses!server, Ses!browser,
     Ses!lockout, Ses!Goes, Ses!Ends, Ses!NoCall, Ses!Rarely, Ses!Open, SesTypes, SesCall,
     SessionsAssumption
<1>2. Passed' = Passed /\ Uncounted' = Uncounted
  BY <1>1 DEF SessionsIInv, SesTypes, SesCall, Passed, Uncounted
<1>3. SesTypes'
  BY <1>1 DEF SessionsIInv, SesTypes, SesCall
<1>4. PastEpochs'
  BY <1>1 DEF SessionsIInv, SesTypes, SesCall, PastEpochs
<1>5. CountBounded'
  BY <1>1, <1>2, PassedSizes, SessionsAssumption DEF SessionsIInv, SesTypes, CountBounded
<1>6. WrongCounted'
  BY <1>1, <1>2, PassedSizes, SessionsAssumption DEF SessionsIInv, SesTypes, WrongCounted,
     Ses!Without
<1>7. Traces'
  BY <1>1 DEF SessionsIInv, SesTypes, Traces
<1>8. Calm' => Calm
  BY <1>1 DEF Calm, Ses!Without
<1>9. OneAtATime'
  BY <1>1, <1>8 DEF SessionsIInv, SesTypes, OneAtATime, TokenKept, Traces, Calm, Ses!Without
<1>10. TokenKept'
  BY <1>1, <1>8 DEF SessionsIInv, SesTypes, SesCall, TokenKept, OneAtATime, Traces, Calm,
     Ses!Without, Ses!Revocations
<1> QED
  BY <1>3, <1>4, <1>5, <1>6, <1>7, <1>9, <1>10 DEF SessionsIInv

LEMMA DeniedKeeps ==
  ASSUME SessionsAssumption, SessionsIInv, NEW c \in Ses_Callers, Ses!Denied(c)
  PROVE  SessionsIInv'
<1>1. /\ Ses_call[c].at = "denied"
      /\ Ses_store' = 0
      /\ Ses_call' \in [Ses_Callers -> SesCall]
      /\ \A d \in Ses_Callers \ {c} : Ses_call'[d] = Ses_call[d]
      /\ Ses_call'[c].at = "idle"
      /\ Ses_call'[c].flow = "none"
      /\ Ses_call'[c].tok = 0
      /\ Ses_call'[c].since = 0
      /\ UNCHANGED <<Ses_account, Ses_hash, Ses_counter, Ses_minted, Ses_admin, Ses_epoch,
           Ses_wrong, Ses_rare>>
  BY SessionsAssumption DEF SessionsIInv, Ses!Denied, Ses!vars, Ses!server, Ses!browser,
     Ses!lockout, Ses!Goes, Ses!Ends, Ses!NoCall, Ses!Rarely, Ses!Open, SesTypes, SesCall,
     SessionsAssumption
<1>2. Passed' = Passed /\ Uncounted' = Uncounted
  BY <1>1 DEF SessionsIInv, SesTypes, SesCall, Passed, Uncounted
<1>3. SesTypes'
  BY <1>1 DEF SessionsIInv, SesTypes, Ses!Rare, Ses!Revocations, Ses!Failures
<1>4. PastEpochs'
  BY <1>1 DEF SessionsIInv, SesTypes, SesCall, PastEpochs
<1>5. CountBounded'
  BY <1>1, <1>2, PassedSizes, SessionsAssumption DEF SessionsIInv, SesTypes, CountBounded
<1>6. WrongCounted'
  BY <1>1, <1>2, PassedSizes, SessionsAssumption DEF SessionsIInv, SesTypes, WrongCounted,
     Ses!Without
<1>7. Traces'
  BY <1>1 DEF SessionsIInv, SesTypes, Traces
<1>8. Calm' => Calm
  BY <1>1 DEF Calm, Ses!Without
<1>9. OneAtATime'
  BY <1>1, <1>8 DEF SessionsIInv, SesTypes, OneAtATime, TokenKept, Traces, Calm, Ses!Without
<1>10. TokenKept'
  BY <1>1, <1>8 DEF SessionsIInv, SesTypes, SesCall, TokenKept, OneAtATime, Traces, Calm,
     Ses!Without, Ses!Revocations
<1> QED
  BY <1>3, <1>4, <1>5, <1>6, <1>7, <1>9, <1>10 DEF SessionsIInv

LEMMA BlipKeeps ==
  ASSUME SessionsAssumption, SessionsIInv, NEW c \in Ses_Callers, Ses!Blip(c)
  PROVE  SessionsIInv'
<1>1. /\ Ses_call[c].at = "sent"
      /\ "blip" \notin Ses_rare
      /\ Ses_rare' = Ses_rare \cup {"blip"}
      /\ Ses_call' \in [Ses_Callers -> SesCall]
      /\ \A d \in Ses_Callers \ {c} : Ses_call'[d] = Ses_call[d]
      /\ Ses_call'[c].at = "idle"
      /\ Ses_call'[c].flow = "none"
      /\ Ses_call'[c].tok = 0
      /\ Ses_call'[c].since = 0
      /\ UNCHANGED <<Ses_account, Ses_hash, Ses_counter, Ses_store, Ses_minted, Ses_admin,
           Ses_epoch, Ses_wrong>>
  BY SessionsAssumption DEF SessionsIInv, Ses!Blip, Ses!vars, Ses!server, Ses!browser, Ses!lockout,
     Ses!Goes, Ses!Ends, Ses!NoCall, Ses!Rarely, Ses!Open, SesTypes, SesCall, SessionsAssumption
<1>2. Passed' = Passed /\ Uncounted' = Uncounted
  BY <1>1 DEF SessionsIInv, SesTypes, SesCall, Passed, Uncounted
<1>3. SesTypes'
  BY <1>1 DEF SessionsIInv, SesTypes, Ses!Rare, Ses!Revocations, Ses!Failures
<1>4. PastEpochs'
  BY <1>1 DEF SessionsIInv, SesTypes, SesCall, PastEpochs
<1>5. CountBounded'
  BY <1>1, <1>2, PassedSizes, SessionsAssumption DEF SessionsIInv, SesTypes, CountBounded
<1>6. WrongCounted'
  BY <1>1, <1>2, PassedSizes, SessionsAssumption DEF SessionsIInv, SesTypes, WrongCounted,
     Ses!Without
<1>7. Traces'
  BY <1>1 DEF SessionsIInv, SesTypes, Traces
<1>8. Calm' => Calm
  BY <1>1 DEF Calm, Ses!Without
<1>9. OneAtATime'
  BY <1>1, <1>8 DEF SessionsIInv, SesTypes, OneAtATime, TokenKept, Traces, Calm, Ses!Without
<1>10. TokenKept'
  BY <1>1, <1>8 DEF SessionsIInv, SesTypes, SesCall, TokenKept, OneAtATime, Traces, Calm,
     Ses!Without, Ses!Revocations
<1> QED
  BY <1>3, <1>4, <1>5, <1>6, <1>7, <1>9, <1>10 DEF SessionsIInv

LEMMA LoseKeeps ==
  ASSUME SessionsAssumption, SessionsIInv, NEW c \in Ses_Callers, Ses!Lose(c)
  PROVE  SessionsIInv'
<1>1. /\ Ses_call[c].at = "answer"
      /\ "lost" \notin Ses_rare
      /\ Ses_rare' = Ses_rare \cup {"lost"}
      /\ Ses_call' \in [Ses_Callers -> SesCall]
      /\ \A d \in Ses_Callers \ {c} : Ses_call'[d] = Ses_call[d]
      /\ Ses_call'[c].at = "idle"
      /\ Ses_call'[c].flow = "none"
      /\ Ses_call'[c].tok = 0
      /\ Ses_call'[c].since = 0
      /\ UNCHANGED <<Ses_account, Ses_hash, Ses_counter, Ses_store, Ses_minted, Ses_admin,
           Ses_epoch, Ses_wrong>>
  BY SessionsAssumption DEF SessionsIInv, Ses!Lose, Ses!vars, Ses!server, Ses!browser, Ses!lockout,
     Ses!Goes, Ses!Ends, Ses!NoCall, Ses!Rarely, Ses!Open, SesTypes, SesCall, SessionsAssumption
<1>2. Passed' = Passed /\ Uncounted' = Uncounted
  BY <1>1 DEF SessionsIInv, SesTypes, SesCall, Passed, Uncounted
<1>3. SesTypes'
  BY <1>1 DEF SessionsIInv, SesTypes, Ses!Rare, Ses!Revocations, Ses!Failures
<1>4. PastEpochs'
  BY <1>1 DEF SessionsIInv, SesTypes, SesCall, PastEpochs
<1>5. CountBounded'
  BY <1>1, <1>2, PassedSizes, SessionsAssumption DEF SessionsIInv, SesTypes, CountBounded
<1>6. WrongCounted'
  BY <1>1, <1>2, PassedSizes, SessionsAssumption DEF SessionsIInv, SesTypes, WrongCounted,
     Ses!Without
<1>7. Traces'
  BY <1>1 DEF SessionsIInv, SesTypes, Traces
<1>8. ~Calm'
  BY <1>1 DEF SessionsIInv, Traces, Calm, Ses!Without, Ses!Revocations, Ses!Failures
<1>9. OneAtATime' /\ TokenKept'
  BY <1>8 DEF OneAtATime, TokenKept
<1> QED
  BY <1>3, <1>4, <1>5, <1>6, <1>7, <1>9 DEF SessionsIInv

LEMMA LeaveKeeps ==
  ASSUME SessionsAssumption, SessionsIInv, NEW c \in Ses_Callers, Ses!Leave(c)
  PROVE  SessionsIInv'
<1>1. /\ Ses_call[c].at = "idle" /\ Ses_store # 0
      /\ (Ses_TabOf[c] = Ses_FirstTab \/ "secondtab" \in Ses_rare)
      /\ "logout" \notin Ses_rare
      /\ Ses_rare' = Ses_rare \cup {"logout"}
      /\ Ses_call' \in [Ses_Callers -> SesCall]
      /\ \A d \in Ses_Callers \ {c} : Ses_call'[d] = Ses_call[d]
      /\ Ses_call'[c].at = "leaving"
      /\ Ses_call'[c].flow = "logout"
      /\ Ses_call'[c].tok = 0
      /\ Ses_call'[c].since = Ses_epoch
      /\ UNCHANGED <<Ses_account, Ses_hash, Ses_counter, Ses_store, Ses_minted, Ses_admin,
           Ses_epoch, Ses_wrong>>
  BY SessionsAssumption DEF SessionsIInv, Ses!Leave, Ses!vars, Ses!server, Ses!browser, Ses!lockout,
     Ses!Goes, Ses!Ends, Ses!NoCall, Ses!Rarely, Ses!Open, SesTypes, SesCall, SessionsAssumption
<1>2. Passed' = Passed /\ Uncounted' = Uncounted
  BY <1>1 DEF SessionsIInv, SesTypes, SesCall, Passed, Uncounted
<1>3. SesTypes'
  BY <1>1 DEF SessionsIInv, SesTypes, Ses!Rare, Ses!Revocations, Ses!Failures
<1>4. PastEpochs'
  BY <1>1 DEF SessionsIInv, SesTypes, SesCall, PastEpochs
<1>5. CountBounded'
  BY <1>1, <1>2, PassedSizes, SessionsAssumption DEF SessionsIInv, SesTypes, CountBounded
<1>6. WrongCounted'
  BY <1>1, <1>2, PassedSizes, SessionsAssumption DEF SessionsIInv, SesTypes, WrongCounted,
     Ses!Without
<1>7. Traces'
  BY <1>1 DEF SessionsIInv, SesTypes, Traces
<1>8. ~Calm'
  BY <1>1 DEF SessionsIInv, Traces, Calm, Ses!Without, Ses!Revocations, Ses!Failures
<1>9. OneAtATime' /\ TokenKept'
  BY <1>8 DEF OneAtATime, TokenKept
<1> QED
  BY <1>3, <1>4, <1>5, <1>6, <1>7, <1>9 DEF SessionsIInv

LEMMA LeftKeeps ==
  ASSUME SessionsAssumption, SessionsIInv, NEW c \in Ses_Callers, Ses!Left(c)
  PROVE  SessionsIInv'
<1>1. /\ Ses_call[c].at = "left"
      /\ Ses_store' = 0
      /\ Ses_call' \in [Ses_Callers -> SesCall]
      /\ \A d \in Ses_Callers \ {c} : Ses_call'[d] = Ses_call[d]
      /\ Ses_call'[c].at = "idle"
      /\ Ses_call'[c].flow = "none"
      /\ Ses_call'[c].tok = 0
      /\ Ses_call'[c].since = 0
      /\ UNCHANGED <<Ses_account, Ses_hash, Ses_counter, Ses_minted, Ses_admin, Ses_epoch,
           Ses_wrong, Ses_rare>>
  BY SessionsAssumption DEF SessionsIInv, Ses!Left, Ses!vars, Ses!server, Ses!browser, Ses!lockout,
     Ses!Goes, Ses!Ends, Ses!NoCall, Ses!Rarely, Ses!Open, SesTypes, SesCall, SessionsAssumption
<1>2. Passed' = Passed /\ Uncounted' = Uncounted
  BY <1>1 DEF SessionsIInv, SesTypes, SesCall, Passed, Uncounted
<1>3. SesTypes'
  BY <1>1 DEF SessionsIInv, SesTypes, Ses!Rare, Ses!Revocations, Ses!Failures
<1>4. PastEpochs'
  BY <1>1 DEF SessionsIInv, SesTypes, SesCall, PastEpochs
<1>5. CountBounded'
  BY <1>1, <1>2, PassedSizes, SessionsAssumption DEF SessionsIInv, SesTypes, CountBounded
<1>6. WrongCounted'
  BY <1>1, <1>2, PassedSizes, SessionsAssumption DEF SessionsIInv, SesTypes, WrongCounted,
     Ses!Without
<1>7. Traces'
  BY <1>1 DEF SessionsIInv, SesTypes, Traces
<1>8. ~Calm'
  BY <1>1 DEF SessionsIInv, Traces, Calm, Ses!Without, Ses!Revocations, Ses!Failures
<1>9. OneAtATime' /\ TokenKept'
  BY <1>8 DEF OneAtATime, TokenKept
<1> QED
  BY <1>3, <1>4, <1>5, <1>6, <1>7, <1>9 DEF SessionsIInv

LEMMA WindowEndsKeeps ==
  ASSUME SessionsAssumption, SessionsIInv, Ses!WindowEnds
  PROVE  SessionsIInv'
<1>1. /\ Ses_counter' \in [n : Nat, expires : BOOLEAN]
      /\ Ses_counter'.n = 0 /\ Ses_wrong' = 0
      /\ Ses_call' = Ses_call
      /\ UNCHANGED <<Ses_account, Ses_hash, Ses_store, Ses_minted, Ses_admin, Ses_epoch, Ses_rare>>
  BY SessionsAssumption DEF SessionsIInv, Ses!WindowEnds, Ses!vars, Ses!server, Ses!browser,
     Ses!lockout, Ses!Goes, Ses!Ends, Ses!NoCall, Ses!Rarely, Ses!Open, SesTypes, SesCall,
     SessionsAssumption, Ses!NoFailures
<1>2. Passed' = Passed /\ Uncounted' = Uncounted
  BY <1>1 DEF SessionsIInv, SesTypes, SesCall, Passed, Uncounted
<1>3. SesTypes'
  BY <1>1 DEF SessionsIInv, SesTypes, Ses!Rare, Ses!Revocations, Ses!Failures
<1>4. PastEpochs'
  BY <1>1 DEF SessionsIInv, SesTypes, SesCall, PastEpochs
<1>5. CountBounded'
  BY <1>1, <1>2, PassedSizes, SessionsAssumption DEF SessionsIInv, SesTypes, CountBounded
<1>6. WrongCounted'
  BY <1>1, <1>2, PassedSizes, SessionsAssumption DEF SessionsIInv, SesTypes, WrongCounted,
     Ses!Without
<1>7. Traces'
  BY <1>1 DEF SessionsIInv, SesTypes, Traces
<1>8. Calm' => Calm
  BY <1>1 DEF Calm, Ses!Without
<1>9. OneAtATime'
  BY <1>1, <1>8 DEF SessionsIInv, SesTypes, OneAtATime, TokenKept, Traces, Calm, Ses!Without
<1>10. TokenKept'
  BY <1>1, <1>8 DEF SessionsIInv, SesTypes, SesCall, TokenKept, OneAtATime, Traces, Calm,
     Ses!Without, Ses!Revocations
<1> QED
  BY <1>3, <1>4, <1>5, <1>6, <1>7, <1>9, <1>10 DEF SessionsIInv

LEMMA SetPasswordKeeps ==
  ASSUME SessionsAssumption, SessionsIInv, Ses!SetPassword
  PROVE  SessionsIInv'
<1>1. /\ "password" \notin Ses_rare
      /\ Ses_rare' = Ses_rare \cup {"password"}
      /\ Ses_hash' \in [tok : 0..Ses_MaxTokens, since : Nat] /\ Ses_hash'.since = 0
      /\ Ses_epoch' = Ses_epoch + 1
      /\ Ses_call' = Ses_call
      /\ UNCHANGED <<Ses_account, Ses_counter, Ses_store, Ses_minted, Ses_admin, Ses_wrong>>
  BY SessionsAssumption DEF SessionsIInv, Ses!SetPassword, Ses!vars, Ses!server, Ses!browser,
     Ses!lockout, Ses!Goes, Ses!Ends, Ses!NoCall, Ses!Rarely, Ses!Open, SesTypes, SesCall,
     SessionsAssumption, Ses!Revoked, Ses!NoToken
<1>2. Passed' = Passed /\ Uncounted' = Uncounted
  BY <1>1 DEF SessionsIInv, SesTypes, SesCall, Passed, Uncounted
<1>3. SesTypes'
  BY <1>1 DEF SessionsIInv, SesTypes, Ses!Rare, Ses!Revocations, Ses!Failures
<1>4. PastEpochs'
  BY <1>1 DEF SessionsIInv, SesTypes, SesCall, PastEpochs
<1>5. CountBounded'
  BY <1>1, <1>2, PassedSizes, SessionsAssumption DEF SessionsIInv, SesTypes, CountBounded
<1>6. WrongCounted'
  BY <1>1, <1>2, PassedSizes, SessionsAssumption DEF SessionsIInv, SesTypes, WrongCounted,
     Ses!Without
<1>7. Traces'
  BY <1>1 DEF SessionsIInv, SesTypes, Traces
<1>8. ~Calm'
  BY <1>1 DEF SessionsIInv, Traces, Calm, Ses!Without, Ses!Revocations, Ses!Failures
<1>9. OneAtATime' /\ TokenKept'
  BY <1>8 DEF OneAtATime, TokenKept
<1> QED
  BY <1>3, <1>4, <1>5, <1>6, <1>7, <1>9 DEF SessionsIInv

LEMMA SetDisabledKeeps ==
  ASSUME SessionsAssumption, SessionsIInv, NEW yes \in BOOLEAN, Ses!SetDisabled(yes)
  PROVE  SessionsIInv'
<1>1. /\ Ses_account' \in [disabled : BOOLEAN, required : BOOLEAN, secret : BOOLEAN]
      /\ \/ ~Ses_account'.disabled /\ Ses_account.disabled /\
           UNCHANGED <<Ses_hash, Ses_epoch, Ses_rare>>
         \/ /\ Ses_account'.disabled /\ "disable" \notin Ses_rare /\
              Ses_rare' = Ses_rare \cup {"disable"}
            /\ Ses_hash' \in [tok : 0..Ses_MaxTokens, since : Nat] /\ Ses_hash'.since = 0
            /\ Ses_epoch' = Ses_epoch + 1
      /\ Ses_call' = Ses_call
      /\ UNCHANGED <<Ses_counter, Ses_store, Ses_minted, Ses_admin, Ses_wrong>>
  BY SessionsAssumption DEF SessionsIInv, Ses!SetDisabled, Ses!vars, Ses!server, Ses!browser,
     Ses!lockout, Ses!Goes, Ses!Ends, Ses!NoCall, Ses!Rarely, Ses!Open, SesTypes, SesCall,
     SessionsAssumption, Ses!Revoked, Ses!NoToken
<1>2. Passed' = Passed /\ Uncounted' = Uncounted
  BY <1>1 DEF SessionsIInv, SesTypes, SesCall, Passed, Uncounted
<1>3. SesTypes'
  <2>1. Ses_rare' \subseteq Ses!Rare /\ Ses_epoch' \in Nat
    <3>1. Ses_rare' \subseteq Ses_rare \cup {"disable"}
      BY <1>1
    <3>2. Ses_epoch' \in Nat
      BY <1>1 DEF SessionsIInv, SesTypes
    <3> QED
      BY <3>1, <3>2 DEF SessionsIInv, SesTypes, Ses!Rare, Ses!Revocations
  <2>2. Ses_hash' \in [tok : 0..Ses_MaxTokens, since : Nat]
    BY <1>1 DEF SessionsIInv, SesTypes
  <2> QED
    BY <1>1, <2>1, <2>2 DEF SessionsIInv, SesTypes
<1>4. PastEpochs'
  BY <1>1 DEF SessionsIInv, SesTypes, SesCall, PastEpochs
<1>5. CountBounded'
  BY <1>1, <1>2, PassedSizes, SessionsAssumption DEF SessionsIInv, SesTypes, CountBounded
<1>6. WrongCounted'
  BY <1>1, <1>2, PassedSizes, SessionsAssumption DEF SessionsIInv, SesTypes, WrongCounted,
     Ses!Without
<1>7. Traces'
  BY <1>1 DEF SessionsIInv, SesTypes, Traces
<1>8. ~Calm'
  BY <1>1 DEF SessionsIInv, Traces, Calm, Ses!Without, Ses!Revocations, Ses!Failures
<1>9. OneAtATime' /\ TokenKept'
  BY <1>8 DEF OneAtATime, TokenKept
<1> QED
  BY <1>3, <1>4, <1>5, <1>6, <1>7, <1>9 DEF SessionsIInv

LEMMA RequireKeeps ==
  ASSUME SessionsAssumption, SessionsIInv, Ses!Require
  PROVE  SessionsIInv'
<1>1. /\ "require" \notin Ses_rare
      /\ Ses_rare' = Ses_rare \cup {"require"}
      /\ Ses_admin' = "requiring"
      /\ Ses_account' \in [disabled : BOOLEAN, required : BOOLEAN, secret : BOOLEAN] /\
           Ses_account'.disabled = Ses_account.disabled
      /\ Ses_call' = Ses_call
      /\ UNCHANGED <<Ses_hash, Ses_counter, Ses_store, Ses_minted, Ses_epoch, Ses_wrong>>
  BY SessionsAssumption DEF SessionsIInv, Ses!Require, Ses!vars, Ses!server, Ses!browser,
     Ses!lockout, Ses!Goes, Ses!Ends, Ses!NoCall, Ses!Rarely, Ses!Open, SesTypes, SesCall,
     SessionsAssumption
<1>2. Passed' = Passed /\ Uncounted' = Uncounted
  BY <1>1 DEF SessionsIInv, SesTypes, SesCall, Passed, Uncounted
<1>3. SesTypes'
  BY <1>1 DEF SessionsIInv, SesTypes, Ses!Rare, Ses!Revocations, Ses!Failures
<1>4. PastEpochs'
  BY <1>1 DEF SessionsIInv, SesTypes, SesCall, PastEpochs
<1>5. CountBounded'
  BY <1>1, <1>2, PassedSizes, SessionsAssumption DEF SessionsIInv, SesTypes, CountBounded
<1>6. WrongCounted'
  BY <1>1, <1>2, PassedSizes, SessionsAssumption DEF SessionsIInv, SesTypes, WrongCounted,
     Ses!Without
<1>7. Traces'
  BY <1>1 DEF SessionsIInv, SesTypes, Traces
<1>8. ~Calm'
  BY <1>1 DEF SessionsIInv, Traces, Calm, Ses!Without, Ses!Revocations, Ses!Failures
<1>9. OneAtATime' /\ TokenKept'
  BY <1>8 DEF OneAtATime, TokenKept
<1> QED
  BY <1>3, <1>4, <1>5, <1>6, <1>7, <1>9 DEF SessionsIInv

LEMMA RequireThenKeeps ==
  ASSUME SessionsAssumption, SessionsIInv, Ses!RequireThen
  PROVE  SessionsIInv'
<1>1. /\ Ses_admin = "requiring" /\ Ses_admin' = "idle"
      /\ Ses_hash' \in [tok : 0..Ses_MaxTokens, since : Nat] /\ Ses_hash'.since = 0
      /\ Ses_epoch' = Ses_epoch + 1
      /\ Ses_call' = Ses_call
      /\ UNCHANGED <<Ses_account, Ses_counter, Ses_store, Ses_minted, Ses_wrong, Ses_rare>>
  BY SessionsAssumption DEF SessionsIInv, Ses!RequireThen, Ses!vars, Ses!server, Ses!browser,
     Ses!lockout, Ses!Goes, Ses!Ends, Ses!NoCall, Ses!Rarely, Ses!Open, SesTypes, SesCall,
     SessionsAssumption, Ses!Revoked, Ses!NoToken
<1>2. Passed' = Passed /\ Uncounted' = Uncounted
  BY <1>1 DEF SessionsIInv, SesTypes, SesCall, Passed, Uncounted
<1>3. SesTypes'
  BY <1>1 DEF SessionsIInv, SesTypes, Ses!Rare, Ses!Revocations, Ses!Failures
<1>4. PastEpochs'
  BY <1>1 DEF SessionsIInv, SesTypes, SesCall, PastEpochs
<1>5. CountBounded'
  BY <1>1, <1>2, PassedSizes, SessionsAssumption DEF SessionsIInv, SesTypes, CountBounded
<1>6. WrongCounted'
  BY <1>1, <1>2, PassedSizes, SessionsAssumption DEF SessionsIInv, SesTypes, WrongCounted,
     Ses!Without
<1>7. Traces'
  BY <1>1 DEF SessionsIInv, SesTypes, Traces
<1>8. ~Calm'
  BY <1>1 DEF SessionsIInv, Traces, Calm, Ses!Without, Ses!Revocations, Ses!Failures
<1>9. OneAtATime' /\ TokenKept'
  BY <1>8 DEF OneAtATime, TokenKept
<1> QED
  BY <1>3, <1>4, <1>5, <1>6, <1>7, <1>9 DEF SessionsIInv

LEMMA ResetTwoFactorKeeps ==
  ASSUME SessionsAssumption, SessionsIInv, Ses!ResetTwoFactor
  PROVE  SessionsIInv'
<1>1. /\ "reset" \notin Ses_rare
      /\ Ses_rare' = Ses_rare \cup {"reset"}
      /\ Ses_account' \in [disabled : BOOLEAN, required : BOOLEAN, secret : BOOLEAN] /\
           Ses_account'.disabled = Ses_account.disabled
      /\ Ses_call' = Ses_call
      /\ UNCHANGED <<Ses_hash, Ses_counter, Ses_store, Ses_minted, Ses_admin, Ses_epoch, Ses_wrong>>
  BY SessionsAssumption DEF SessionsIInv, Ses!ResetTwoFactor, Ses!vars, Ses!server, Ses!browser,
     Ses!lockout, Ses!Goes, Ses!Ends, Ses!NoCall, Ses!Rarely, Ses!Open, SesTypes, SesCall,
     SessionsAssumption
<1>2. Passed' = Passed /\ Uncounted' = Uncounted
  BY <1>1 DEF SessionsIInv, SesTypes, SesCall, Passed, Uncounted
<1>3. SesTypes'
  BY <1>1 DEF SessionsIInv, SesTypes, Ses!Rare, Ses!Revocations, Ses!Failures
<1>4. PastEpochs'
  BY <1>1 DEF SessionsIInv, SesTypes, SesCall, PastEpochs
<1>5. CountBounded'
  BY <1>1, <1>2, PassedSizes, SessionsAssumption DEF SessionsIInv, SesTypes, CountBounded
<1>6. WrongCounted'
  BY <1>1, <1>2, PassedSizes, SessionsAssumption DEF SessionsIInv, SesTypes, WrongCounted,
     Ses!Without
<1>7. Traces'
  BY <1>1 DEF SessionsIInv, SesTypes, Traces
<1>8. Calm' => Calm
  BY <1>1 DEF Calm, Ses!Without
<1>9. OneAtATime'
  BY <1>1, <1>8 DEF SessionsIInv, SesTypes, OneAtATime, TokenKept, Traces, Calm, Ses!Without
<1>10. TokenKept'
  BY <1>1, <1>8 DEF SessionsIInv, SesTypes, SesCall, TokenKept, OneAtATime, Traces, Calm,
     Ses!Without, Ses!Revocations
<1> QED
  BY <1>3, <1>4, <1>5, <1>6, <1>7, <1>9, <1>10 DEF SessionsIInv

LEMMA EnrolKeeps ==
  ASSUME SessionsAssumption, SessionsIInv, Ses!Enrol
  PROVE  SessionsIInv'
<1>1. /\ "enroll" \notin Ses_rare
      /\ Ses_rare' = Ses_rare \cup {"enroll"}
      /\ Ses_account' \in [disabled : BOOLEAN, required : BOOLEAN, secret : BOOLEAN] /\
           Ses_account'.disabled = Ses_account.disabled
      /\ Ses_call' = Ses_call
      /\ UNCHANGED <<Ses_hash, Ses_counter, Ses_store, Ses_minted, Ses_admin, Ses_epoch, Ses_wrong>>
  BY SessionsAssumption DEF SessionsIInv, Ses!Enrol, Ses!vars, Ses!server, Ses!browser, Ses!lockout,
     Ses!Goes, Ses!Ends, Ses!NoCall, Ses!Rarely, Ses!Open, SesTypes, SesCall, SessionsAssumption
<1>2. Passed' = Passed /\ Uncounted' = Uncounted
  BY <1>1 DEF SessionsIInv, SesTypes, SesCall, Passed, Uncounted
<1>3. SesTypes'
  BY <1>1 DEF SessionsIInv, SesTypes, Ses!Rare, Ses!Revocations, Ses!Failures
<1>4. PastEpochs'
  BY <1>1 DEF SessionsIInv, SesTypes, SesCall, PastEpochs
<1>5. CountBounded'
  BY <1>1, <1>2, PassedSizes, SessionsAssumption DEF SessionsIInv, SesTypes, CountBounded
<1>6. WrongCounted'
  BY <1>1, <1>2, PassedSizes, SessionsAssumption DEF SessionsIInv, SesTypes, WrongCounted,
     Ses!Without
<1>7. Traces'
  BY <1>1 DEF SessionsIInv, SesTypes, Traces
<1>8. Calm' => Calm
  BY <1>1 DEF Calm, Ses!Without
<1>9. OneAtATime'
  BY <1>1, <1>8 DEF SessionsIInv, SesTypes, OneAtATime, TokenKept, Traces, Calm, Ses!Without
<1>10. TokenKept'
  BY <1>1, <1>8 DEF SessionsIInv, SesTypes, SesCall, TokenKept, OneAtATime, Traces, Calm,
     Ses!Without, Ses!Revocations
<1> QED
  BY <1>3, <1>4, <1>5, <1>6, <1>7, <1>9, <1>10 DEF SessionsIInv

LEMMA ElsewhereKeeps ==
  ASSUME SessionsAssumption, SessionsIInv, Ses!Elsewhere
  PROVE  SessionsIInv'
<1>1. /\ "elsewhere" \notin Ses_rare
      /\ Ses_rare' = Ses_rare \cup {"elsewhere"}
      /\ Ses_minted' \in 0..Ses_MaxTokens
      /\ Ses_hash' \in [tok : 0..Ses_MaxTokens, since : Nat] /\ Ses_hash'.since = Ses_epoch
      /\ Ses_call' = Ses_call
      /\ UNCHANGED <<Ses_account, Ses_counter, Ses_store, Ses_admin, Ses_epoch, Ses_wrong>>
  BY SessionsAssumption DEF SessionsIInv, Ses!Elsewhere, Ses!vars, Ses!server, Ses!browser,
     Ses!lockout, Ses!Goes, Ses!Ends, Ses!NoCall, Ses!Rarely, Ses!Open, SesTypes, SesCall,
     SessionsAssumption
<1>2. Passed' = Passed /\ Uncounted' = Uncounted
  BY <1>1 DEF SessionsIInv, SesTypes, SesCall, Passed, Uncounted
<1>3. SesTypes'
  BY <1>1 DEF SessionsIInv, SesTypes, Ses!Rare, Ses!Revocations, Ses!Failures
<1>4. PastEpochs'
  BY <1>1 DEF SessionsIInv, SesTypes, SesCall, PastEpochs
<1>5. CountBounded'
  BY <1>1, <1>2, PassedSizes, SessionsAssumption DEF SessionsIInv, SesTypes, CountBounded
<1>6. WrongCounted'
  BY <1>1, <1>2, PassedSizes, SessionsAssumption DEF SessionsIInv, SesTypes, WrongCounted,
     Ses!Without
<1>7. Traces'
  BY <1>1 DEF SessionsIInv, SesTypes, Traces
<1>8. ~Calm'
  BY <1>1 DEF SessionsIInv, Traces, Calm, Ses!Without, Ses!Revocations, Ses!Failures
<1>9. OneAtATime' /\ TokenKept'
  BY <1>8 DEF OneAtATime, TokenKept
<1> QED
  BY <1>3, <1>4, <1>5, <1>6, <1>7, <1>9 DEF SessionsIInv

LEMMA OpenTabKeeps ==
  ASSUME SessionsAssumption, SessionsIInv, Ses!OpenTab
  PROVE  SessionsIInv'
<1>1. /\ "secondtab" \notin Ses_rare
      /\ Ses_rare' = Ses_rare \cup {"secondtab"}
      /\ Ses_call' = Ses_call
      /\ UNCHANGED <<Ses_account, Ses_hash, Ses_counter, Ses_store, Ses_minted, Ses_admin,
           Ses_epoch, Ses_wrong>>
  BY SessionsAssumption DEF SessionsIInv, Ses!OpenTab, Ses!vars, Ses!server, Ses!browser,
     Ses!lockout, Ses!Goes, Ses!Ends, Ses!NoCall, Ses!Rarely, Ses!Open, SesTypes, SesCall,
     SessionsAssumption
<1>2. Passed' = Passed /\ Uncounted' = Uncounted
  BY <1>1 DEF SessionsIInv, SesTypes, SesCall, Passed, Uncounted
<1>3. SesTypes'
  BY <1>1 DEF SessionsIInv, SesTypes, Ses!Rare, Ses!Revocations, Ses!Failures
<1>4. PastEpochs'
  BY <1>1 DEF SessionsIInv, SesTypes, SesCall, PastEpochs
<1>5. CountBounded'
  BY <1>1, <1>2, PassedSizes, SessionsAssumption DEF SessionsIInv, SesTypes, CountBounded
<1>6. WrongCounted'
  BY <1>1, <1>2, PassedSizes, SessionsAssumption DEF SessionsIInv, SesTypes, WrongCounted,
     Ses!Without
<1>7. Traces'
  BY <1>1 DEF SessionsIInv, SesTypes, Traces
<1>8. ~Calm'
  BY <1>1 DEF SessionsIInv, Traces, Calm, Ses!Without, Ses!Revocations, Ses!Failures
<1>9. OneAtATime' /\ TokenKept'
  BY <1>8 DEF OneAtATime, TokenKept
<1> QED
  BY <1>3, <1>4, <1>5, <1>6, <1>7, <1>9 DEF SessionsIInv

LEMMA BootFailsKeeps ==
  ASSUME SessionsAssumption, SessionsIInv, Ses!BootFails
  PROVE  SessionsIInv'
<1>1. /\ "bootfails" \notin Ses_rare
      /\ Ses_rare' = Ses_rare \cup {"bootfails"}
      /\ Ses_store' = 0
      /\ Ses_call' = Ses_call
      /\ UNCHANGED <<Ses_account, Ses_hash, Ses_counter, Ses_minted, Ses_admin, Ses_epoch,
           Ses_wrong>>
  BY SessionsAssumption DEF SessionsIInv, Ses!BootFails, Ses!vars, Ses!server, Ses!browser,
     Ses!lockout, Ses!Goes, Ses!Ends, Ses!NoCall, Ses!Rarely, Ses!Open, SesTypes, SesCall,
     SessionsAssumption
<1>2. Passed' = Passed /\ Uncounted' = Uncounted
  BY <1>1 DEF SessionsIInv, SesTypes, SesCall, Passed, Uncounted
<1>3. SesTypes'
  BY <1>1 DEF SessionsIInv, SesTypes, Ses!Rare, Ses!Revocations, Ses!Failures
<1>4. PastEpochs'
  BY <1>1 DEF SessionsIInv, SesTypes, SesCall, PastEpochs
<1>5. CountBounded'
  BY <1>1, <1>2, PassedSizes, SessionsAssumption DEF SessionsIInv, SesTypes, CountBounded
<1>6. WrongCounted'
  BY <1>1, <1>2, PassedSizes, SessionsAssumption DEF SessionsIInv, SesTypes, WrongCounted,
     Ses!Without
<1>7. Traces'
  BY <1>1 DEF SessionsIInv, SesTypes, Traces
<1>8. ~Calm'
  BY <1>1 DEF SessionsIInv, Traces, Calm, Ses!Without, Ses!Revocations, Ses!Failures
<1>9. OneAtATime' /\ TokenKept'
  BY <1>8 DEF OneAtATime, TokenKept
<1> QED
  BY <1>3, <1>4, <1>5, <1>6, <1>7, <1>9 DEF SessionsIInv

LEMMA CrashKeeps ==
  ASSUME SessionsAssumption, SessionsIInv, Ses!Crash
  PROVE  SessionsIInv'
<1>1. /\ "crash" \notin Ses_rare
      /\ Ses_rare' = Ses_rare \cup {"crash"}
      /\ Ses_admin' = "idle"
      /\ Ses_call' \in [Ses_Callers -> SesCall]
      /\ \A d \in Ses_Callers : Ses_call'[d] = [at |-> "idle", flow |-> "none", tok |-> 0,
           since |-> 0]
      /\ UNCHANGED <<Ses_account, Ses_hash, Ses_counter, Ses_store, Ses_minted, Ses_epoch,
           Ses_wrong>>
  BY SessionsAssumption DEF SessionsIInv, Ses!Crash, Ses!vars, Ses!server, Ses!browser, Ses!lockout,
     Ses!Goes, Ses!Ends, Ses!NoCall, Ses!Rarely, Ses!Open, SesTypes, SesCall, SessionsAssumption
<1>2. Passed' = {} /\ Uncounted' = {}
  BY <1>1 DEF SessionsIInv, SesTypes, SesCall, Passed, Uncounted
<1>3. SesTypes'
  BY <1>1 DEF SessionsIInv, SesTypes, Ses!Rare, Ses!Revocations, Ses!Failures
<1>4. PastEpochs'
  BY <1>1 DEF SessionsIInv, SesTypes, SesCall, PastEpochs
<1>5. CountBounded'
  BY <1>1, <1>2, PassedSizes, SessionsAssumption DEF SessionsIInv, SesTypes, CountBounded
<1>6. WrongCounted'
  BY <1>1, <1>2, PassedSizes, SessionsAssumption DEF SessionsIInv, SesTypes, WrongCounted,
     Ses!Without
<1>7. Traces'
  BY <1>1 DEF SessionsIInv, SesTypes, Traces
<1>8. ~Calm'
  BY <1>1 DEF SessionsIInv, Traces, Calm, Ses!Without, Ses!Revocations, Ses!Failures
<1>9. OneAtATime' /\ TokenKept'
  BY <1>8 DEF OneAtATime, TokenKept
<1> QED
  BY <1>3, <1>4, <1>5, <1>6, <1>7, <1>9 DEF SessionsIInv

(* The initial state, and a step that leaves the part alone. *)
LEMMA SessionsStart ==
  ASSUME SessionsAssumption, Ses!Init
  PROVE  SessionsIInv
<1>1. /\ Ses_hash = [tok |-> 0, since |-> 0] /\ Ses_counter = [n |-> 0, expires |-> FALSE]
      /\ Ses_call = [c \in Ses_Callers |-> [at |-> "idle", flow |-> "none", tok |-> 0, since |-> 0]]
      /\ Ses_store = 0 /\ Ses_minted = 0 /\ Ses_admin = "idle" /\ Ses_epoch = 0 /\ Ses_wrong = 0
      /\ Ses_rare = {} /\ ~Ses_account.disabled
      /\ Ses_account \in [disabled : BOOLEAN, required : BOOLEAN, secret : BOOLEAN]
  BY DEF Ses!Init, Ses!NoToken, Ses!NoFailures, Ses!NoCall
<1>2. SesTypes
  BY <1>1, SessionsAssumption DEF SesTypes, SesCall
<1>3. Passed = {} /\ Uncounted = {}
  BY <1>1 DEF Passed, Uncounted
<1>4. Ses_counter.n = 0
  BY <1>1
<1>5. CountBounded /\ WrongCounted
  BY <1>1, <1>3, <1>4, PassedSizes, SessionsAssumption DEF CountBounded, WrongCounted
<1>6. PastEpochs /\ Traces /\ OneAtATime /\ TokenKept
  BY <1>1 DEF PastEpochs, Traces, OneAtATime, TokenKept
<1> QED
  BY <1>2, <1>5, <1>6 DEF SessionsIInv

LEMMA SessionsStutter ==
  ASSUME SessionsIInv, UNCHANGED sessionsVars
  PROVE  SessionsIInv'
BY DEF sessionsVars, SessionsIInv, SesTypes, PastEpochs, CountBounded, Passed, WrongCounted,
       Uncounted, Ses!Without, Traces, Calm, OneAtATime, TokenKept

LEMMA SessionsStep ==
  ASSUME SessionsAssumption, SessionsIInv, Ses!Next
  PROVE  SessionsIInv'
<1>1. CASE \E c \in Ses_Callers : Ses!Handler(c)
  BY <1>1, SessionsAssumption, IssueKeeps, RefreshKeeps, LogoutKeeps, VerifyCodeKeeps,
     RecordFailureKeeps, SetExpiryKeeps, ClearKeeps, EnableKeeps DEF Ses!Handler
<1>2. CASE \E c \in Ses_Callers : Ses!Client(c)
  BY <1>2, SessionsAssumption, LoginKeeps, AssertNotLockedOutKeeps, GiveUpKeeps,
     RefreshTokensKeeps, AnswerKeeps, DeniedKeeps, BlipKeeps, LoseKeeps, LeaveKeeps, LeftKeeps
     DEF Ses!Client
<1>3. CASE \/ Ses!WindowEnds \/ Ses!SetPassword \/ (\E yes \in BOOLEAN : Ses!SetDisabled(yes))
           \/ Ses!Require \/ Ses!RequireThen \/ Ses!ResetTwoFactor \/ Ses!Enrol \/ Ses!Elsewhere
           \/ Ses!OpenTab \/ Ses!BootFails \/ Ses!Crash
  BY <1>3, SessionsAssumption, WindowEndsKeeps, SetPasswordKeeps, SetDisabledKeeps, RequireKeeps,
     RequireThenKeeps, ResetTwoFactorKeeps, EnrolKeeps, ElsewhereKeeps, OpenTabKeeps,
     BootFailsKeeps, CrashKeeps
<1> QED
  BY <1>1, <1>2, <1>3 DEF Ses!Next

(* The invariant says what the run checks. *)
LEMMA SessionsImplied ==
  ASSUME SessionsAssumption, SessionsIInv
  PROVE  Ses!SessionsInv
<1>1. Ses!TypeOK
  <2>1. Ses_hash \in [tok : 0..Ses_MaxTokens, since : 0..Ses_epoch]
    BY DEF SessionsIInv, SesTypes, PastEpochs
  <2>2. \A c \in Ses_Callers :
          Ses_call[c] \in [at : {"idle", "sent", "code", "checked", "wrong", "expiring", "right",
                                 "enabling", "issue", "answer", "denied", "leaving", "left"},
                           flow : {"none", "refresh", "login", "verify", "setup", "logout"},
                           tok : 0..Ses_MaxTokens, since : 0..Ses_epoch]
    BY DEF SessionsIInv, SesTypes, SesCall, PastEpochs
  <2>3. Ses_counter.n \in 0..(Ses_MAX_ATTEMPTS + Ses!Cardinality(Ses_Callers))
    BY PassedSizes, SessionsAssumption, SameCardinality DEF SessionsIInv, SesTypes, CountBounded
  <2>4. Ses_counter \in [n : 0..(Ses_MAX_ATTEMPTS + Ses!Cardinality(Ses_Callers)),
                         expires : BOOLEAN]
    BY <2>3 DEF SessionsIInv, SesTypes
  <2> QED
    BY <2>1, <2>2, <2>4 DEF Ses!TypeOK, SessionsIInv, SesTypes
<1>2. Ses!InStep
  <2>1. SUFFICES ASSUME Ses!Quiet, Calm PROVE Ses_store = Ses_hash.tok
    BY DEF Ses!InStep, Calm
  <2>2. \A c \in Ses_Callers : Ses_call[c].at # "answer"
    BY <2>1 DEF Ses!Quiet
  <2> QED
    BY <2>1, <2>2 DEF SessionsIInv, TokenKept
<1>3. Ses!GuessesBounded
  <2>1. SUFFICES ASSUME Ses!Without({"redis", "crash"})
                 PROVE  Ses_wrong <= Ses_MAX_ATTEMPTS + Cardinality(Ses_Callers) - 1
    BY SameCardinality DEF Ses!GuessesBounded
  <2>2. "redis" \notin Ses_rare
    BY <2>1 DEF Ses!Without
  <2> QED
    BY <2>1, <2>2, PassedSizes, SessionsAssumption
       DEF SessionsIInv, SesTypes, CountBounded, WrongCounted
<1> QED
  BY <1>1, <1>2, <1>3 DEF Ses!SessionsInv

(* However the requests of a tab overlap and wherever a handler stops, the browser and the row    *)
(* stay in step while nothing revokes the session, and the second factor bounds the wrong codes   *)
(* that are looked at (AuthService, TwoFactorLockoutService, client.ts). *)
THEOREM SessionsHold == SumSpec => []SessionsInv
<1>1. SumInit => SessionsIInv
  BY SessionsStart, SessionsAssumption DEF SumInit
<1>2. SessionsIInv /\ [SumNext]_allVars => SessionsIInv'
  <2>1. SUFFICES ASSUME SessionsIInv, [SumNext]_allVars PROVE SessionsIInv'
    OBVIOUS
  <2>2. CASE Ses!Next
    BY <2>1, <2>2, SessionsStep, SessionsAssumption
  <2>3. CASE UNCHANGED sessionsVars
    BY <2>1, <2>3, SessionsStutter
  <2> QED
    BY <2>1, <2>2, <2>3 DEF SumNext, allVars
<1>3. SessionsIInv => SessionsInv
  BY SessionsImplied, SessionsAssumption DEF SessionsInv
<1> QED
  BY <1>1, <1>2, <1>3, PTL DEF SumSpec

=============================================================================
