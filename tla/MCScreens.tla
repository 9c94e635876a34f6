------------------------------ MODULE MCScreens ------------------------------
(***************************************************************************)
(* The screens of the dashboard and of the mobile application, each with   *)
(* two of its acts that meet, and what is known of their gaps.             *)
(***************************************************************************)
EXTENDS Console

D == INSTANCE DashboardScreens
M == INSTANCE MobileScreens

AllScreens ==
    {D!Audience, D!Flows, D!Leads, D!Posts, D!Comments, D!Scheduled, D!Calendar, D!Marketing, D!Ads, D!Reports,
     D!Analytics, D!Settings, D!Notifications, D!Team, D!Pages, D!Home, D!Broadcasts, D!Support, D!AutoReply,
     D!Billing, D!FlowStudioSide, D!Tools, D!Activity, D!Pricing, D!AdminSupport, D!AdminSettings, D!AdminTelegram}
    \cup
    {M!Team, M!Messages, M!Broadcasts, M!Home, M!Analytics, M!Reports, M!Activity, M!Billing, M!Subscribe,
     M!Comments, M!Scheduled, M!Calendar, M!AutoReply, M!Tools, M!Leads, M!Audience, M!Marketing, M!Ads,
     M!Sequences, M!Support, M!Settings, M!Pages, M!Notifications}

\* What is known of them: keys an act does not invalidate though they show what
\* it changes, keys that are not polled and whose first load an act can meet,
\* panels that do not heal, controls that can send their request twice.
Gaps ==
    {<<"flows", "createFlow", "flows">>, <<"posts", "publishDraft", "fb-posts">>, <<"billing", "upgrade", "balance">>,
     <<"autoreply", "createRule", "setup-status">>, <<"autoreply", "deleteRule", "setup-status">>,
     <<"admin-telegram", "saveTelegram", "telegram-diagnose">>, <<"admin-telegram", "addApprover", "telegram-diagnose">>,
     <<"admin-telegram", "deleteApprover", "telegram-diagnose">>}
    \cup {"pages"} \X {"saveConnection", "testConnection"} \X {"setup-status", "shell-webhook"}
Joins ==
    {<<"audience", "createTag", "tags">>, <<"audience", "createAndAssign", "tags">>,
     <<"leads", "saveCustomer", "crm-customers">>, <<"marketing", "createCampaign", "marketing-campaigns">>,
     <<"notifications", "markAllRead", "notifications-feed">>, <<"notifications", "markRead", "notifications-feed">>,
     <<"support", "openTicket", "support-tickets">>, <<"tools", "createTmpl", "templates">>,
     <<"tools", "createOffer", "offers">>, <<"admin-support", "closeTicket", "admin-support-tickets">>,
     <<"admin-support", "adminReply", "admin-support-tickets">>, <<"flow-studio", "testFlow", "flow-executions">>,
     <<"flow-studio", "testFlow", "flow-stats">>, <<"billing", "upgrade", "payment-history">>,
     <<"admin-telegram", "saveTelegram", "telegram-config">>,
     <<"admin-telegram", "addTarget", "telegram-broadcast-targets">>,
     <<"admin-telegram", "addApprover", "admin-telegram-approvers">>,
     <<"m-team", "addMember", "team-members">>, <<"m-broadcast", "createBroadcast", "broadcasts">>,
     <<"m-billing", "topup", "payments-history">>, <<"m-scheduled", "schedulePost", "scheduled-posts">>,
     <<"m-calendar", "saveEntry", "calendar">>, <<"m-leads", "addCustomer", "crm-customers">>,
     <<"m-support", "openTicket", "support-tickets">>, <<"m-pages", "saveConnection", "facebook-settings">>}
Unhealing ==
    {s.name : s \in AllScreens} \X {"setup-status", "shell-webhook"}
    \cup
    {<<"home", "subscription-usage">>, <<"admin-telegram", "admin-telegram-me">>,
     <<"admin-telegram", "telegram-broadcast-targets">>, <<"admin-telegram", "admin-telegram-approvers">>,
     <<"flows", "flow-stats">>, <<"flow-studio", "flow-stats">>, <<"comments", "ai-status">>, <<"marketing", "audience-size">>,
     <<"reports", "reports-pdf-status">>, <<"reports", "analytics-top-commenters">>, <<"billing", "plans">>,
     <<"m-analytics", "top-commenters">>, <<"m-reports", "analytics-dashboard">>, <<"m-billing", "wallet-balance">>,
     <<"m-audience", "top-commenters-full">>, <<"m-marketing", "audience-size">>, <<"m-support", "support-info">>,
     <<"m-settings", "me">>, <<"m-pages", "facebook-settings">>}
DoubledActs ==
    {<<"audience", "createTag">>, <<"audience", "assign">>, <<"audience", "remove">>, <<"audience", "createAndAssign">>,
     <<"flows", "createFlow">>, <<"flow-studio", "testFlow">>, <<"leads", "saveCustomer">>,
     <<"audience", "unsubscribe">>, <<"audience", "resubscribe">>, <<"flows", "duplicateFlow">>, <<"flows", "deleteFlow">>,
     <<"posts", "publishDraft">>, <<"posts", "deleteDraft">>, <<"comments", "publicReply">>, <<"comments", "suggestReply">>,
     <<"scheduled", "publishScheduled">>, <<"scheduled", "deleteScheduled">>,
     <<"marketing", "sendCampaign">>, <<"marketing", "deleteCampaign">>, <<"settings", "togglePref">>,
     <<"notifications", "togglePref">>, <<"notifications", "markRead">>, <<"team", "changeRole">>, <<"team", "deleteMember">>,
     <<"broadcast", "sendBroadcast">>, <<"broadcast", "cancelBroadcast">>, <<"autoreply", "toggleRule">>,
     <<"autoreply", "deleteRule">>, <<"tools", "deleteTmpl">>, <<"tools", "toggleOffer">>,
     <<"tools", "deleteOffer">>, <<"admin-support", "closeTicket">>,
     <<"admin-telegram", "toggleTarget">>, <<"admin-telegram", "deleteTarget">>, <<"admin-telegram", "deleteApprover">>}
    \cup
    {<<"m-team", "changeRole">>, <<"m-team", "deleteMember">>, <<"m-broadcast", "sendBroadcast">>,
     <<"m-broadcast", "cancelBroadcast">>, <<"m-comments", "hideComment">>, <<"m-scheduled", "publishPost">>,
     <<"m-scheduled", "deletePost">>, <<"m-calendar", "deleteEntry">>, <<"m-autoreply", "toggleRule">>,
     <<"m-autoreply", "deleteRule">>, <<"m-tools", "toggleOffer">>, <<"m-notifications", "markRead">>,
     <<"m-messages", "markRead">>}
==============================================================================
