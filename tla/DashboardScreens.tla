-------------------------- MODULE DashboardScreens --------------------------
(* The screens of the merchant's dashboard, section by section. *)
EXTENDS Sections
-----------------------------------------------------------------------------
\* DashboardShell.tsx around every page: what its banners show was read once,
\* when the shell was mounted.

SetupWarnings ==
    Section({Query("setup-status", {"facebook", "ruleCount", "telegram", "facebookApp"})}, {}, {Panel("setup-status", "nothing")})
WebhookHealthBanner == Section({Query("shell-webhook", {"facebook"})}, {}, {Panel("shell-webhook", "nothing")})
InShell(name, sections) == Screen(name, sections \cup {SetupWarnings, WebhookHealthBanner})
-----------------------------------------------------------------------------
\* audience/page.tsx

AudienceOverview ==
    Section({Polled(Query("analytics-overview", {"replies", "page"})), Polled(Query("top-commenters", {"replies"}))}, {},
            {Panel("analytics-overview", "retry"), Panel("top-commenters", "retry")})
SubscriptionActs ==
    {PerRow(ArmedAct(Act("unsubscribe", {"subscribers"}, {"subscribers"}, {}))),
     PerRow(Act("resubscribe", {"subscribers"}, {"subscribers"}, {}))}
SubscriberRows ==
    Section({Polled(Query("subscribers", {"subscribers", "assignments"}))}, SubscriptionActs,
            {Panel("subscribers", "retry")})
TagsManagerDialog ==
    Section({Query("tags", {"tags", "assignments"})},
            {Housed("tags", Act("createTag", {"tags"}, {"tags"}, {"createTag"}))}, {Panel("tags", "retry")})
TagActs == {"assign", "remove", "createAndAssign"}
TagChanges ==
    {Housed("subscriberTags", a) : a \in
       {Rowwise(Act("assign", {"assignments"}, {"tags", "subscribers"}, TagActs)),
        Rowwise(Act("remove", {"assignments"}, {"tags", "subscribers"}, TagActs)),
        After({"subscribers"}, Act("createAndAssign", {"tags", "assignments"}, {"tags", "subscribers"}, TagActs))}}
SubscriberTagsDialog == Section({Query("tags", {"tags", "assignments"})}, TagChanges, {})
Audience == InShell("audience", {AudienceOverview, SubscriberRows, TagsManagerDialog, SubscriberTagsDialog})
-----------------------------------------------------------------------------
\* flows/page.tsx, FlowStudio.tsx, ExecutionsPanel.tsx

FlowListActs ==
    {PerRow(ArmedAct(Act("deleteFlow", {"flows"}, {"flows"}, {}))),
     PerRow(Act("duplicateFlow", {"flows"}, {"flows"}, {}))}
FlowCards == Section({Query("flows", {"flows", "status"}), Query("flow-stats", {"runs"})}, FlowListActs,
                     {Panel("flows", "retry"), Panel("flow-stats", "message")})
CreateFlowDialog == Section({}, {Housed("create", Act("createFlow", {"flows"}, {}, {"createFlow"}))}, {})
Flows == InShell("flows", {FlowCards, CreateFlowDialog})

\* A test run is a run of the engine and is logged.
StatsStrip == Section({Query("flow-stats", {"runs"})}, {}, {Panel("flow-stats", "nothing")})
ExecutionsPanel == Section({Query("flow-executions", {"runs"})}, {}, {Panel("flow-executions", "retry")})
TestFlowDialog ==
    Section({}, {Housed("test", Act("testFlow", {"runs"}, {"flow-executions", "flow-stats", "flows"}, {"testFlow"}))}, {})
FlowStudioSide == InShell("flow-studio", {StatsStrip, ExecutionsPanel, TestFlowDialog})
-----------------------------------------------------------------------------
\* leads/page.tsx: the rows of the last search stay while another is loaded

CustomersQuery == Query("crm-customers", {"customers"})
CustomersList == Section({CustomersQuery}, {}, {Panel("crm-customers", "retry")})
EditCustomer == Housed("edit", Anytime(Rowwise(Act("saveCustomer", {"customers"}, {"crm-customers"}, {"saveCustomer"}))))
EditCustomerDialog == Section({}, {EditCustomer}, {})
Leads == InShell("leads", {CustomersList, EditCustomerDialog})
-----------------------------------------------------------------------------
\* posts/page.tsx

FbPostsQuery == Query("fb-posts", {"fbPosts"})
DraftsQuery == Polled(Query("scheduled-posts-drafts", {"scheduledPosts"}))
CreateDraft == Act("createDraft", {"scheduledPosts"}, {"scheduled-posts-drafts"}, {"createDraft"})
PublishDraft == PerRow(ArmedAct(Act("publishDraft", {"scheduledPosts", "fbPosts"}, {"scheduled-posts-drafts"}, {})))
DeleteDraft == PerRow(ArmedAct(Act("deleteDraft", {"scheduledPosts"}, {"scheduled-posts-drafts"}, {})))
DraftComposer == Section({}, {CreateDraft}, {})
FbPostsPanel == Section({FbPostsQuery}, {}, {Panel("fb-posts", "retry")})
DraftsPanel == Section({DraftsQuery}, {}, {Panel("scheduled-posts-drafts", "retry")})
DraftControls == Section({}, {PublishDraft, DeleteDraft}, {})
Posts == InShell("posts", {DraftComposer, FbPostsPanel, DraftsPanel, DraftControls})
-----------------------------------------------------------------------------
\* comments/page.tsx

CommentsQuery == Polled(Query("comments", {"replies"}))
AiStatusQuery == Query("ai-status", {"aiStatus"})
SuggestReply == Act("suggestReply", {}, {}, {})
PublicReply == PerRow(Act("publicReply", {"replies"}, {"comments"}, {}))
CommentsPanel == Section({CommentsQuery, AiStatusQuery}, {}, {Panel("comments", "retry"), Panel("ai-status", "nothing")})
CommentRow == Section({}, {PublicReply}, {})
SuggestDialog == Section({}, {SuggestReply}, {})
Comments == InShell("comments", {CommentsPanel, CommentRow, SuggestDialog})
-----------------------------------------------------------------------------
\* scheduled/page.tsx and calendar/page.tsx

ScheduledQuery == Polled(Query("scheduled-posts", {"scheduledPosts"}))
SchedulePost == Act("schedulePost", {"scheduledPosts"}, {"scheduled-posts"}, {"schedulePost"})
PublishScheduled == PerRow(ArmedAct(Act("publishScheduled", {"scheduledPosts"}, {"scheduled-posts"}, {})))
DeleteScheduled == PerRow(ArmedAct(Act("deleteScheduled", {"scheduledPosts"}, {"scheduled-posts"}, {})))
ScheduleForm == Section({}, {SchedulePost}, {})
ScheduledPanel == Section({ScheduledQuery}, {}, {Panel("scheduled-posts", "retry")})
ScheduledControls == Section({}, {PublishScheduled, DeleteScheduled}, {})
Scheduled == InShell("scheduled", {ScheduleForm, ScheduledPanel, ScheduledControls})

MonthQuery == Polled(Query("calendar", {"scheduledPosts"}))
CalendarGrid == Section({MonthQuery}, {}, {Panel("calendar", "retry")})
Calendar == InShell("calendar", {CalendarGrid})
-----------------------------------------------------------------------------
\* marketing/page.tsx

CampaignsQuery == Query("marketing-campaigns", {"campaigns"})
AudienceSizeQuery == Query("audience-size", {"subscribers"})
EstimateQuery == Query("marketing-send-preview", {"subscribers"})
CreateCampaign == Act("createCampaign", {"campaigns"}, {"marketing-campaigns"}, {"createCampaign"})
SendCampaign == PerRow(Act("sendCampaign", {"campaigns"}, {"marketing-campaigns"}, {}))
DeleteCampaign == PerRow(ArmedAct(Act("deleteCampaign", {"campaigns"}, {"marketing-campaigns"}, {})))
CampaignForm == Section({AudienceSizeQuery}, {CreateCampaign}, {Panel("audience-size", "nothing")})
CampaignsPanel == Section({CampaignsQuery}, {}, {Panel("marketing-campaigns", "retry")})
CampaignRows == Section({}, {DeleteCampaign}, {})
SendDialog == Section({EstimateQuery}, {SendCampaign}, {Panel("marketing-send-preview", "retry")})
Marketing == InShell("marketing", {CampaignForm, CampaignsPanel, CampaignRows, SendDialog})
-----------------------------------------------------------------------------
\* ads/page.tsx, reports/page.tsx, analytics/page.tsx: nothing to send

AdCampaignsQuery == Query("ads-campaigns", {"ads"})
AdItemsQuery == Query("ads-items", {"ads"})
AdAccountsQuery == Query("ads-accounts", {"ads"})
AccountDetail == Section({AdCampaignsQuery, AdItemsQuery}, {}, {Panel("ads-campaigns", "retry"), Panel("ads-items", "retry")})
AccountsPanel == Section({AdAccountsQuery}, {}, {Panel("ads-accounts", "retry")})
Ads == InShell("ads", {AccountsPanel, AccountDetail})

SummaryQuery == Query("analytics-dashboard", {"replies"})
TopCommentersQuery == Query("analytics-top-commenters", {"replies"})
PdfStatusQuery == Query("reports-pdf-status", {"pdf"})
DownloadPdf == Act("downloadPdf", {}, {}, {"downloadPdf"})
DownloadCsv == Act("downloadCsv", {}, {}, {"downloadCsv"})
ReportSummary == Section({SummaryQuery}, {}, {Panel("analytics-dashboard", "retry")})
PdfReport == Section({PdfStatusQuery}, {DownloadPdf}, {Panel("reports-pdf-status", "nothing")})
CsvExport == Section({}, {DownloadCsv}, {})
TopCommenters == Section({TopCommentersQuery}, {}, {Panel("analytics-top-commenters", "message")})
Reports == InShell("reports", {ReportSummary, PdfReport, CsvExport, TopCommenters})

Advanced(key) == Section({Polled(Query(key, {"replies"}))}, {}, {Panel(key, "retry")})
DailyTrendSection == Advanced("daily-trend")
HeatmapSection == Advanced("hourly-heatmap")
PeakHourSection == Advanced("peak-hour")
TopRulesSection == Advanced("top-rules")
PeriodComparisonSection == Advanced("period-comparison")
AnalyticsOverview == Advanced("analytics-overview")
Analytics == InShell("analytics", {AnalyticsOverview, DailyTrendSection, HeatmapSection, PeakHourSection,
                                  TopRulesSection, PeriodComparisonSection})
-----------------------------------------------------------------------------
\* settings/page.tsx and notifications/page.tsx

MeQuery == Polled(Query("me", {"users"}))
SettingsQuery == Query("notification-settings", {"preferences"})
WebhookQuery == Query("webhook-check", {"webhook"})
ChangePassword == Act("changePassword", {"password"}, {}, {"changePassword"})
TogglePref == PerRow(Act("togglePref", {"preferences"}, {"notification-settings"}, {}))
PasswordForm == Section({MeQuery}, {ChangePassword}, {Panel("me", "retry")})
PrefSwitches == Section({SettingsQuery}, {TogglePref}, {Panel("notification-settings", "retry")})
WebhookPanel == Section({WebhookQuery}, {}, {Panel("webhook-check", "retry")})
Settings == InShell("settings", {PasswordForm, PrefSwitches, WebhookPanel})

FeedQuery == Query("notifications-feed", {"notifications"})
\* The rows of a narrower window stay while a wider one is loaded.
MarkAllRead == Act("markAllRead", {"notifications"}, {"notifications-feed"}, {"markAllRead"})
MarkRead == Anytime(Rowwise(Act("markRead", {"notifications"}, {"notifications-feed"}, {})))
NotificationFeed == Section({FeedQuery}, {MarkAllRead, MarkRead}, {Panel("notifications-feed", "retry")})
NotificationToggles == PrefSwitches
Notifications == InShell("notifications", {NotificationFeed, NotificationToggles})
-----------------------------------------------------------------------------
\* team/page.tsx and pages/page.tsx

MembersQuery == Polled(Query("team-members", {"users"}))
AddMember == Act("addMember", {"users"}, {"team-members"}, {"addMember"})
ChangeRole == PerRow(Act("changeRole", {"users"}, {"team-members"}, {}))
DeleteMember == PerRow(ArmedAct(Act("deleteMember", {"users"}, {"team-members"}, {})))
AddMemberForm == Section({}, {AddMember}, {})
MembersPanel == Section({MembersQuery}, {}, {Panel("team-members", "retry")})
MemberRows == Section({}, {ChangeRole, DeleteMember}, {})
Team == InShell("team", {AddMemberForm, MembersPanel, MemberRows})

FacebookQuery == Query("facebook-settings", {"facebook"})
SaveConnection ==
    After({"facebook-settings"}, Act("saveConnection", {"facebook"}, {"facebook-settings"}, {"saveConnection"}))
TestConnection ==
    After({"facebook-settings"}, Act("testConnection", {"facebook"}, {"facebook-settings"}, {"testConnection"}))
ConnectionCard == Section({FacebookQuery}, {TestConnection}, {Panel("facebook-settings", "retry")})
ConnectionForm == Section({}, {SaveConnection}, {})
Pages == InShell("pages", {ConnectionCard, ConnectionForm})
-----------------------------------------------------------------------------
\* page.tsx: the dashboard's home

BundleQuery == Polled(Query("dashboard-bundle", {"replies", "rules", "facebook"}))
BotHealthCard == Section({Query("bot-health", {"replies"})}, {}, {Panel("bot-health", "retry")})
PageErrorState == Panel("dashboard-bundle", "retry")
HomeCards == Section({BundleQuery}, {}, {PageErrorState})
PlanUsageCard == Section({Query("subscription-usage", {"plan", "replies"})}, {}, {Panel("subscription-usage", "nothing")})
Home == InShell("home", {HomeCards, BotHealthCard, PlanUsageCard})
-----------------------------------------------------------------------------
\* activity/page.tsx and the public pricing/page.tsx

LogsQuery == Polled(Query("activity-logs", {"logs"}))
LogsList == Section({LogsQuery}, {}, {Panel("activity-logs", "retry")})
Activity == InShell("activity", {LogsList})

\* The plans built in are shown until the server's arrive, and with a retry if
\* they do not.
LoadPlans == Query("plans", {"plans"})
PlanCards == Section({LoadPlans}, {}, {Panel("plans", "retry")})
Pricing == Screen("pricing", {PlanCards})
-----------------------------------------------------------------------------
\* broadcast/page.tsx

BroadcastsQuery == Polled(Query("broadcasts", {"broadcasts"}))
FormTagsQuery == Query("tags", {"tags"})
CreateBroadcast == Act("createBroadcast", {"broadcasts"}, {"broadcasts"}, {"createBroadcast"})
SendBroadcast == PerRow(Act("sendBroadcast", {"broadcasts"}, {"broadcasts"}, {}))
BroadcastPreviewQuery == Query("broadcast-send-preview", {"subscribers"})
CancelBroadcast == PerRow(Act("cancelBroadcast", {"broadcasts"}, {"broadcasts"}, {}))
BroadcastForm == Section({FormTagsQuery}, {CreateBroadcast}, {Panel("tags", "retry")})
BroadcastsPanel == Section({BroadcastsQuery}, {CancelBroadcast}, {Panel("broadcasts", "retry")})
BroadcastSendDialog == Section({BroadcastPreviewQuery}, {SendBroadcast}, {Panel("broadcast-send-preview", "retry")})
Broadcasts == InShell("broadcast", {BroadcastForm, BroadcastsPanel, BroadcastSendDialog})
-----------------------------------------------------------------------------
\* support/page.tsx

TicketsQuery == Query("support-tickets", {"tickets"})
TicketQuery == Query("support-ticket", {"ticketReplies"})
TicketKeys == {"support-ticket", "support-tickets"}
ReplyTicket ==
    After(TicketKeys, Act("replyTicket", {"tickets", "ticketReplies"}, TicketKeys, {"replyTicket"}))
OpenTicket == Act("openTicket", {"tickets"}, {"support-tickets"}, {"openTicket"})
TicketForm == Section({}, {OpenTicket}, {})
TicketsList == Section({TicketsQuery}, {}, {Panel("support-tickets", "retry")})
TicketThread == Section({TicketQuery}, {ReplyTicket}, {Panel("support-ticket", "retry")})
Support == InShell("support", {TicketForm, TicketsList, TicketThread})
-----------------------------------------------------------------------------
\* autoreply/page.tsx: the rules

RulesQuery == Polled(Query("rules", {"rules"}))
CreateRule == Act("createRule", {"rules", "ruleCount"}, {"rules"}, {"createRule", "updateRule"})
UpdateRule == Rowwise(Act("updateRule", {"rules"}, {"rules"}, {"createRule", "updateRule"}))
ToggleRule == PerRow(Act("toggleRule", {"rules"}, {"rules"}, {}))
DeleteRule == PerRow(ArmedAct(Act("deleteRule", {"rules", "ruleCount"}, {"rules"}, {})))
RuleForm == Section({}, {CreateRule, UpdateRule}, {})
RulesPanel == Section({RulesQuery}, {}, {Panel("rules", "retry")})
RuleRows == Section({}, {ToggleRule, DeleteRule}, {})
AutoReply == InShell("autoreply", {RuleForm, RulesPanel, RuleRows})
-----------------------------------------------------------------------------
\* tools/page.tsx

OffersQuery == Query("offers", {"offers"})
TemplatesQuery == Query("templates", {"templates"})
CreateTmpl == Act("createTmpl", {"templates"}, {"templates"}, {"createTmpl", "updateTmpl"})
UpdateTmpl == Rowwise(Act("updateTmpl", {"templates"}, {"templates"}, {"createTmpl", "updateTmpl"}))
DeleteTmpl == PerRow(ArmedAct(Act("deleteTmpl", {"templates"}, {"templates"}, {})))
CreateOffer == Act("createOffer", {"offers"}, {"offers"}, {"createOffer"})
ToggleOffer == PerRow(Act("toggleOffer", {"offers"}, {"offers"}, {}))
DeleteOffer == PerRow(ArmedAct(Act("deleteOffer", {"offers"}, {"offers"}, {})))
TemplateForm == Section({}, {CreateTmpl, UpdateTmpl}, {})
TemplatesPanel == Section({TemplatesQuery}, {DeleteTmpl}, {Panel("templates", "retry")})
OfferForm == Section({}, {CreateOffer}, {})
OffersPanel == Section({OffersQuery}, {ToggleOffer, DeleteOffer}, {Panel("offers", "retry")})
Tools == InShell("tools", {TemplateForm, TemplatesPanel, OfferForm, OffersPanel})
-----------------------------------------------------------------------------
\* admin/support/page.tsx: the tickets of all tenants, their replies with them;
\* those of the last page or filter stay while others are loaded

AdminTicketsQuery == Query("admin-support-tickets", {"tickets", "ticketReplies"})
CloseTicket == Anytime(PerRow(Act("closeTicket", {"tickets"}, {"admin-support-tickets"}, {})))
AdminReply == Act("adminReply", {"tickets", "ticketReplies"}, {"admin-support-tickets"}, {"adminReply"})
AdminTickets == Section({AdminTicketsQuery}, {}, {Panel("admin-support-tickets", "retry")})
TicketRow == Section({}, {CloseTicket}, {})
ReplyBox == Section({}, {AdminReply}, {})
AdminSupport == Screen("admin-support", {AdminTickets, TicketRow, ReplyBox})
-----------------------------------------------------------------------------
\* admin/settings/page.tsx: the platform's settings, loaded and saved as one

PlatformConfig == {"transfer", "supportInfo", "telegram", "facebookApp", "aiKeys"}
AdminConfigQuery == Query("admin-config", PlatformConfig)
SaveConfig == After({"admin-config"}, Act("saveConfig", PlatformConfig, {"admin-config"}, {"saveConfig"}))
SendTelegramTest == Act("sendTelegramTest", {}, {}, {"sendTelegramTest"})
ConfigLoader == Section({AdminConfigQuery}, {}, {Panel("admin-config", "retry")})
ConfigForm == Section({}, {SaveConfig, SendTelegramTest}, {})
AdminSettings == Screen("admin-settings", {ConfigLoader, ConfigForm})
-----------------------------------------------------------------------------
\* admin/telegram/page.tsx and its three sections: the bot, whom it sends to
\* and who may approve; a diagnosis counts the approvers and can be run again

AccessQuery == Query("admin-telegram-me", {"users"})
TelegramConfigQuery == Query("telegram-config", {"telegram"})
TargetsQuery == Query("telegram-broadcast-targets", {"targets"})
DiagnoseQuery == Query("telegram-diagnose", {"telegram", "approvers"})
ApproversQuery == Query("admin-telegram-approvers", {"approvers"})
SaveTelegram == Past({"telegram-config"}, Act("saveTelegram", {"telegram"}, {"telegram-config"}, {"saveTelegram"}))
TestTelegram == Act("testTelegram", {}, {}, {"testTelegram"})
AddTarget == Act("addTarget", {"targets"}, {"telegram-broadcast-targets"}, {"addTarget"})
ToggleTarget == Rowwise(Act("toggleTarget", {"targets"}, {"telegram-broadcast-targets"}, {}))
DeleteTarget == Rowwise(Act("deleteTarget", {"targets"}, {"telegram-broadcast-targets"}, {}))
AddApprover == Act("addApprover", {"approvers"}, {"admin-telegram-approvers"}, {"addApprover"})
DeleteApprover == Rowwise(Act("deleteApprover", {"approvers"}, {"admin-telegram-approvers"}, {}))
AccessGate == Section({AccessQuery}, {}, {Panel("admin-telegram-me", "message")})
TelegramConfigSection ==
    Section({TelegramConfigQuery}, {SaveTelegram, TestTelegram}, {Panel("telegram-config", "retry")})
BroadcastTargetsSection ==
    Section({TargetsQuery}, {AddTarget, ToggleTarget, DeleteTarget}, {Panel("telegram-broadcast-targets", "empty")})
ApproversSection ==
    Section({ApproversQuery}, {AddApprover, DeleteApprover}, {Panel("admin-telegram-approvers", "empty")})
DiagnoseResults == Section({DiagnoseQuery}, {}, {Panel("telegram-diagnose", "retry")})
AdminTelegram ==
    Screen("admin-telegram",
           {AccessGate, TelegramConfigSection, BroadcastTargetsSection, ApproversSection, DiagnoseResults})
-----------------------------------------------------------------------------
\* billing/page.tsx

BalanceQuery == Query("balance", {"payments"})
HistoryQuery == Query("payment-history", {"payments"})
PlansQuery == Query("plans", {"plans"})
Upgrade == After({"plans"}, Act("upgrade", {"payments"}, {"payment-history"}, {"upgrade"}))
UpgradeCard == Section({PlansQuery}, {}, {Panel("plans", "empty")})
BalanceCard == Section({BalanceQuery}, {}, {Panel("balance", "retry")})
HistoryPanel == Section({HistoryQuery}, {}, {Panel("payment-history", "retry")})
UpgradeDialog == Section({}, {Upgrade}, {})
Billing == InShell("billing", {UpgradeCard, BalanceCard, HistoryPanel, UpgradeDialog})
=============================================================================
