---------------------------- MODULE MonitorSteps -----------------------------
(*****************************************************************************)
(* The steps of steps/resource-manager/monitor: log profiles and activity    *)
(* log alerts.                                                               *)
(*****************************************************************************)
EXTENDS StepEffects, StepStartStates

MonitorEntities ==
    [MONITOR_LOG_PROFILE |-> "azure_monitor_log_profile",
     DIAGNOSTIC_SETTING |-> "azure_diagnostic_setting",
     ACTIVITY_LOG_ALERT |-> "azure_monitor_activity_log_alert"]

MonitorRelationships ==
    [SUBSCRIPTION_HAS_MONITOR_LOG_PROFILE |-> <<"azure_subscription", "HAS", "azure_monitor_log_profile">>,
     MONITOR_LOG_PROFILE_USES_STORAGE_ACCOUNT |-> <<"azure_monitor_log_profile", "USES", "azure_storage_account">>,
     AZURE_RESOURCE_HAS_DIAGNOSTIC_SETTING |-> <<"ANY_SCOPE", "HAS", "azure_diagnostic_setting">>,
     DIAGNOSTIC_SETTING_USES_STORAGE_ACCOUNT |-> <<"azure_diagnostic_setting", "USES", "azure_storage_account">>,
     RESOURCE_GROUP_HAS_ACTIVITY_LOG_ALERT |-> GroupHas("azure_monitor_activity_log_alert"),
     ACTIVITY_LOG_ALERT_MONITORS_SCOPE |-> <<"azure_monitor_activity_log_alert", "MONITORS", "ANY_SCOPE">>]
-----------------------------------------------------------------------------
fetchLogProfiles ==
    Account (+) Adds({"azure_monitor_log_profile"})
            (+) Finds({"azure_subscription", "azure_storage_account"})
            (+) Relates({<<"azure_subscription", "HAS", "azure_monitor_log_profile">>,
                         <<"azure_monitor_log_profile", "USES", "azure_storage_account">>})

fetchActivityLogAlerts ==
    Account (+) Under("azure_resource_group", "HAS", "azure_monitor_activity_log_alert")

\* The first scope that is not found ends the work on its alert.
buildActivityLogScopeRelationships ==
    LinksTo("azure_monitor_activity_log_alert", "MONITORS", "ANY_SCOPE")
-----------------------------------------------------------------------------
monitorSteps == {
    Step("rm-monitor-log-profiles", "monitor", {"rm-storage-resources", "rm-subscription"},
         fetchLogProfiles, {MonitorEntities.MONITOR_LOG_PROFILE},
         {MonitorRelationships.SUBSCRIPTION_HAS_MONITOR_LOG_PROFILE,
          MonitorRelationships.MONITOR_LOG_PROFILE_USES_STORAGE_ACCOUNT}),
    Step("rm-monitor-activity-log-alerts", "monitor",
         {"ad-account", "rm-resources-resource-groups"}, fetchActivityLogAlerts,
         {MonitorEntities.ACTIVITY_LOG_ALERT},
         {MonitorRelationships.RESOURCE_GROUP_HAS_ACTIVITY_LOG_ALERT}),
    Step("rm-monitor-activity-log-alert-scope-relationships", "monitor",
         {"rm-monitor-activity-log-alerts"} \cup getResourceManagerSteps.executeFirstSteps,
         buildActivityLogScopeRelationships, {},
         {MonitorRelationships.ACTIVITY_LOG_ALERT_MONITORS_SCOPE})}
=============================================================================
