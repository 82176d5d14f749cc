------------------------------- MODULE Screens ------------------------------
(***************************************************************************)
(* The components of the panel: the queries each one mounts, and the       *)
(* mutations its controls offer with the capability the control asks for   *)
(* ("any" when it is drawn for everyone).  A screen is what is mounted     *)
(* together: the shell, a page, and the section of the page that is open.  *)
(* Layout, wording and the fields of forms are left out.                   *)
(***************************************************************************)
EXTENDS Hooks

(* useCan: the capability is granted to the roles permissions.ts lists,    *)
(* the same split as the routes'.                                          *)
useCan(capability, role) == Permits(capability, role)

Offer(hook, gate) == [hook |-> hook, gate |-> gate]
Anyone(hooks)     == {Offer(h, "any") : h \in hooks}
OperateButton(hooks) == {Offer(h, "operate") : h \in hooks}
AdminOnly(hooks)  == {Offer(h, "admin") : h \in hooks}

(* shows: queries mounted for everyone; shownTo: with the capability they  *)
(* are mounted for, when it is not everyone's.                             *)
Part(shows, does) == [shows |-> shows, admins |-> {}, does |-> does]

Together(parts) ==
  [shows  |-> UNION {p.shows : p \in parts},
   admins |-> UNION {p.admins : p \in parts},
   does   |-> UNION {p.does : p \in parts}]

(* the shell *)
TaskRow      == Part({}, Anyone({useClearTask}))
ActivityMenu == Together({TaskRow, Part({useTasks}, Anyone({useClearTasks}))})
AccountMenu  == Part({useAuth}, {})
AppShell     == Together({ActivityMenu, AccountMenu})

(* pages of their own *)
LoginPage            == Part({useSystemInfo}, {})
SystemUtilization    == Part({useSystemStats, useSystemStatsHistory}, {})
DeployActions        ==
  Part({}, OperateButton({useDeploy, useRestart, useStop, useStart})
             \cup AdminOnly({useRemoveDeployment}))
DeploymentRow        == DeployActions
DeploymentsPage      ==
  [Together({DeploymentRow, Part({useDeployments}, {})})
     EXCEPT !.admins = SystemUtilization.shows]
GitRepoFields        == Part({}, Anyone({useDiscoverBranches}))
ImageSourceFields    == Part({useDockerImages}, {})
SourceFields         == Together({GitRepoFields, ImageSourceFields})
DomainPicker         == Part({useDnsZones, useSystemInfo}, {})
DomainStep           == DomainPicker
SourceStep           == SourceFields
CreateDeploymentPage ==
  Together({SourceStep, DomainStep,
            Part({useSystemInfo, useHostResources}, OperateButton({useCreateDeployment}))})
MonitoringPage       == Part({useSystemStatsHistory}, {})
ManageZonesDialog    == Part({}, Anyone({useRegisterZone, useUnregisterZone}))
DnsPage              ==
  Together({ManageZonesDialog,
            Part({useDnsZones, useDnsRecords, useHostPublicIp},
                 OperateButton({useCreateDnsRecord, useDeleteDnsRecord}))})
NewDestinationDialog == Part({}, OperateButton({useCreateDestination}))
BackupDestinations   ==
  Together({NewDestinationDialog,
            Part({useBackupDestinations}, OperateButton({useDeleteDestination}))})
BackupsPage          == BackupDestinations
NewUserDialog        == Part({}, Anyone({useCreateUser}))
UsersPage            == Together({NewUserDialog, Part({useUsers}, {})})
ImagesPage           ==
  Part({useAppSettings, useAdminImages}, Anyone({useDeleteAdminImage, usePruneImages}))
ContainersPage       ==
  Part({useAppSettings, useAdminContainers}, Anyone({usePruneContainers}))
AuditPage            == Part({useAuditLogs}, {})
PortBindingSetting   == Part({}, Anyone({useUpdateAppSettings}))
SettingsPage         ==
  Together({PortBindingSetting, Part({useAppSettings}, Anyone({useUpdateAppSettings}))})

(* the page of a user *)
UserDetailPage   == Part({useUser}, {})
UserGeneralTab   == Part({}, Anyone({useUpdateUser}) \cup AdminOnly({useSetUserDisabled}))
DangerZone       == Part({}, Anyone({useDeleteUser}))
UserSecurityTab  ==
  [shows |-> {}, admins |-> {},
   does  |-> Anyone({useSetUserPassword}) \cup AdminOnly({o.hook : o \in DangerZone.does})]
SelfControls     == Part({}, Anyone({useStartTwoFactor, useConfirmTwoFactor, useDisableTwoFactor}))
AdminControls    == Part({}, Anyone({useRequireTwoFactor, useDisableTwoFactor}))
UserTwoFactorTab ==
  [shows |-> {}, admins |-> {},
   does  |-> SelfControls.does \cup AdminOnly({o.hook : o \in AdminControls.does})]

(* the page of a deployment: its bar, and the sections *)
DeploymentDetailPage ==
  Together({DeployActions, Part({useDeployment, useDeploymentContainers}, {})})
ReleasesGrid         == Part({}, OperateButton({useRollback, useDeleteRelease}))
DeploymentUtilization == Part({useDeploymentStats, useDeploymentStatsHistory}, {})
OverviewTab          ==
  Together({ReleasesGrid, DeploymentUtilization, Part({useReleases}, {})})
ReleaseSelector      == Part({useReleases}, {})
BuildLogsTab         == Together({ReleaseSelector, Part({useReleases}, {})})
CronRunsTab          == Part({useCronRuns}, Anyone({useRunCron}))
RuntimeLogsTab       == Part({}, {})
EnvVarDialog         == Part({}, OperateButton({useSetEnvVar, useUpdateEnvVarMeta}))
EnvVarEditor         ==
  Together({EnvVarDialog, Part({useEnvVars}, OperateButton({useDeleteEnvVar}))})
VolumesTab           ==
  Part({useDeploymentContainers}, Anyone({useCreateBackupFor, useResetVolume}))
FilesTab             ==
  Part({useVolumeIdentities},
       OperateButton({useWriteFile, useMkdir, useMoveFile, useChmod, useChown,
                      useDeleteFile, useUploadFile}))
NewScheduleDialog    == Part({useDeploymentContainers}, OperateButton({useCreateSchedule}))
BackupSchedules      ==
  Together({NewScheduleDialog,
            Part({useBackupSchedules},
                 OperateButton({useSetScheduleEnabled, useDeleteSchedule}))})
NewBackupDialog      == Part({useDeploymentContainers}, OperateButton({useCreateBackupFor}))
DeploymentBackupsTab ==
  Together({NewBackupDialog, BackupSchedules,
            Part({useBackups, useDeploymentTasks, useBackupDestinations},
                 OperateButton({useDeleteBackup, useRestoreBackup, usePushBackup}))})
NetworkingTab        == Part({useDeploymentContainers}, {})
RouteDialog          ==
  Together({DomainPicker,
            Part({useSystemInfo, useSuggestBindingPort},
                 OperateButton({useAddDomain, useUpdateDomainTarget, useAddBinding,
                                useUpdateBinding}))})
DomainsManager       ==
  Together({RouteDialog,
            Part({useSystemInfo, useDeploymentDomains, useDeploymentContainers, useAppSettings},
                 OperateButton({useMakeDomainPrimary, useRemoveDomain, useRemoveBinding,
                                useUpdateDomainTarget}))})
ResourceForm            == Part({useHostResources}, {})
DeploymentResources     == Part({}, OperateButton({useUpdateDeployment}))
ComposeServiceResources == Part({useServiceResources}, OperateButton({useUpdateServiceResources}))
ResourcesTab            == Together({ResourceForm, DeploymentResources, ComposeServiceResources})
MonitoringTab           == Part({useDeploymentStatsHistory}, {})
DeploymentHealth        == Part({}, OperateButton({useUpdateDeployment}))
ComposeServiceHealth    == Part({useServiceResources}, OperateButton({useUpdateServiceResources}))
HealthTab               == Together({DeploymentHealth, ComposeServiceHealth})
WebhookTab              ==
  Part({useWebhook}, OperateButton({useUpdateDeployment, useRotateWebhook}))
SettingsTab             ==
  Together({SourceFields,
            Part({useSystemInfo}, OperateButton({useUpdateDeployment, useRenameDeployment}))})

(* deploymentSections and userSections: what the routes of a detail page   *)
(* mount under it.                                                         *)
deploymentSections ==
  [overview |-> OverviewTab, settings |-> SettingsTab, env |-> EnvVarEditor,
   resources |-> ResourcesTab, networking |-> NetworkingTab, domains |-> DomainsManager,
   webhook |-> WebhookTab, health |-> HealthTab, volumes |-> VolumesTab,
   files |-> FilesTab, backups |-> DeploymentBackupsTab, monitoring |-> MonitoringTab,
   build |-> BuildLogsTab, runs |-> CronRunsTab, runtime |-> RuntimeLogsTab]

userSections ==
  [general |-> UserGeneralTab, security |-> UserSecurityTab, twofa |-> UserTwoFactorTab]

(* The pages behind AdminRoute, and the others.                            *)
AdminPages ==
  { Together({AppShell, page}) :
      page \in {MonitoringPage, UsersPage, ImagesPage, ContainersPage, AuditPage,
                SettingsPage} }

OpenPages ==
  { Together({AppShell, page}) :
      page \in {DeploymentsPage, CreateDeploymentPage, DnsPage, BackupsPage} }
  \cup { Together({AppShell, DeploymentDetailPage, deploymentSections[s]}) :
           s \in DOMAIN deploymentSections }
  \cup { Together({AppShell, UserDetailPage, userSections[s]}) :
           s \in DOMAIN userSections }

(* What the router lets a user with this role open.                        *)
Screens(role) == OpenPages \cup {LoginPage} \cup (IF useCan("admin", role) THEN AdminPages ELSE {})

Shows(screen, role) ==
  screen.shows \cup (IF useCan("admin", role) THEN screen.admins ELSE {})

Enabled(screen, role) ==
  {o.hook : o \in {p \in screen.does : useCan(p.gate, role)}}
=============================================================================
