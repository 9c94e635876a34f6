---------------------------- MODULE MobileScreens ----------------------------
(* The screens of the mobile application, section by section.  A mutation   *)
(* asks for confirmation in an alert while it is already pending.  A sheet  *)
(* is opened from a header that a first load hides.  Pulling a list down,   *)
(* the tabs and the plan that gate a control, and the fetches of a return   *)
(* to the foreground are left out.                                          *)
EXTENDS Sections

List(key, reads) == Section({Query(key, reads)}, {}, {Panel(key, "retry")})
PolledList(key, reads) == Section({Polled(Query(key, reads))}, {}, {Panel(key, "retry")})
Controls(acts) == Section({}, acts, {})
Silent(key, reads, shows) == Section({Query(key, reads)}, {}, {Panel(key, shows)})
-----------------------------------------------------------------------------
\* team/index.tsx

MembersList == List("team-members", {"members"})
AddMember == Past({"team-members"}, Act("addMember", {"members"}, {"team-members"}, {"addMember"}))
ChangeRole == PerRow(Act("changeRole", {"members"}, {"team-members"}, {}))
DeleteMember == PerRow(Act("deleteMember", {"members"}, {"team-members"}, {}))
MemberCards == Controls({ChangeRole, DeleteMember})
AddMemberSheet == Controls({AddMember})
Team == Screen("m-team", {MembersList, MemberCards, AddMemberSheet})
-----------------------------------------------------------------------------
\* (tabs)/messages.tsx and messages/[id].tsx

ConversationsList == PolledList("inbox-conversations", {"messages", "unread"})
ThreadList == PolledList("conversation", {"messages"})
SendReply == Past({"conversation"}, Act("reply", {"messages"}, {"conversation", "inbox-conversations"}, {"reply"}))
OpenThread == Anytime(Rowwise(Act("markRead", {"unread"}, {"inbox-conversations"}, {})))   \* once per opened thread
ReplyBar == Controls({SendReply, OpenThread})
Messages == Screen("m-messages", {ConversationsList, ThreadList, ReplyBar})
-----------------------------------------------------------------------------
\* broadcast/index.tsx

BroadcastsList == List("broadcasts", {"broadcasts"})
CreateBroadcast == Past({"broadcasts"}, Act("createBroadcast", {"broadcasts"}, {"broadcasts"}, {"createBroadcast"}))
SendBroadcast == PerRow(Act("sendBroadcast", {"broadcasts"}, {"broadcasts"}, {}))
CancelBroadcast == PerRow(Act("cancelBroadcast", {"broadcasts"}, {"broadcasts"}, {}))
BroadcastCards == Controls({SendBroadcast, CancelBroadcast})
BroadcastSheet == Controls({CreateBroadcast})
Broadcasts == Screen("m-broadcast", {BroadcastsList, BroadcastCards, BroadcastSheet})
-----------------------------------------------------------------------------
\* (tabs)/index.tsx, (tabs)/analytics.tsx, reports/index.tsx, activity/index.tsx

HomeBundle == PolledList("dashboard-bundle", {"replies", "messages", "rules"})
Home == Screen("m-home", {HomeBundle})
OverviewPanel == List("analytics-overview", {"replies"})
CommentersPanel == Silent("top-commenters", {"replies"}, "nothing")
Analytics == Screen("m-analytics", {OverviewPanel, CommentersPanel})
ReportPanel == Silent("analytics-dashboard", {"replies"}, "message")
Reports == Screen("m-reports", {ReportPanel})
ActivityList == PolledList("activity-logs", {"logs"})
Activity == Screen("m-activity", {ActivityList})
-----------------------------------------------------------------------------
\* billing/index.tsx, subscribe/index.tsx

BalanceCard == Silent("wallet-balance", {"wallet"}, "empty")
PaymentsList == List("payments-history", {"payments"})
TopUp == Past({"wallet-balance"}, Act("topup", {"payments"}, {"payments-history", "wallet-balance"}, {"topup"}))
TopUpSheet == Controls({TopUp})
Billing == Screen("m-billing", {BalanceCard, PaymentsList, TopUpSheet})
PlansList == List("plans", {"plans"})
RequestPlan == After({"plans"}, Act("subscribe", {"subscriptions"}, {}, {"subscribe"}))
CheckoutSheet == Controls({RequestPlan})
Subscribe == Screen("m-subscribe", {PlansList, CheckoutSheet})
-----------------------------------------------------------------------------
\* (tabs)/comments.tsx

CommentsList == PolledList("comments", {"replies", "hidden"})
ReplyComment == After({"comments"}, Act("replyComment", {"replies"}, {"comments"}, {"replyComment"}))
HideComment == PerRow(Act("hideComment", {"hidden"}, {"comments"}, {}))
CommentCards == Controls({HideComment})
ReplySheet == Controls({ReplyComment})
Comments == Screen("m-comments", {CommentsList, CommentCards, ReplySheet})
-----------------------------------------------------------------------------
\* scheduled/index.tsx, calendar/index.tsx

ScheduledList == List("scheduled-posts", {"scheduledPosts"})
SchedulePost == Past({"scheduled-posts"}, Act("schedulePost", {"scheduledPosts"}, {"scheduled-posts"}, {"schedulePost"}))
PublishPost == PerRow(Act("publishPost", {"scheduledPosts"}, {"scheduled-posts"}, {}))
DeletePost == PerRow(Act("deletePost", {"scheduledPosts"}, {"scheduled-posts"}, {}))
PostCards == Controls({PublishPost, DeletePost})
PostSheet == Controls({SchedulePost})
Scheduled == Screen("m-scheduled", {ScheduledList, PostCards, PostSheet})
EntriesList == List("calendar", {"scheduledPosts"})
SaveEntry == Past({"calendar"}, Act("saveEntry", {"scheduledPosts"}, {"calendar"}, {"saveEntry"}))
DeleteEntry == PerRow(Act("deleteEntry", {"scheduledPosts"}, {"calendar"}, {}))
EntryCards == Controls({DeleteEntry})
EntrySheet == Controls({SaveEntry})
Calendar == Screen("m-calendar", {EntriesList, EntryCards, EntrySheet})
-----------------------------------------------------------------------------
\* autoreply/index.tsx, tools/index.tsx

RulesList == PolledList("rules", {"rules"})
SaveRule == Past({"rules"}, Act("saveRule", {"rules"}, {"rules"}, {"saveRule"}))
ToggleRule == Rowwise(Act("toggleRule", {"rules"}, {"rules"}, {}))
DeleteRule == Rowwise(Act("deleteRule", {"rules"}, {"rules"}, {}))
RuleCards == Controls({ToggleRule, DeleteRule})
RuleSheet == Controls({SaveRule})
AutoReply == Screen("m-autoreply", {RulesList, RuleCards, RuleSheet})
OffersList == List("offers", {"offers"})
TemplatesList == List("templates", {"templates"})
ToggleOffer == PerRow(Act("toggleOffer", {"offers"}, {"offers"}, {}))
OfferCards == Controls({ToggleOffer})
Tools == Screen("m-tools", {OffersList, TemplatesList, OfferCards})
-----------------------------------------------------------------------------
\* leads, audience, marketing, ads, sequences

CustomersList == List("crm-customers", {"customers"})
AddCustomer == Past({"crm-customers"}, Act("addCustomer", {"customers"}, {"crm-customers"}, {"addCustomer"}))
CustomerSheet == Controls({AddCustomer})
Leads == Screen("m-leads", {CustomersList, CustomerSheet})
SubscribersList == List("subscribers", {"subscribers"})
TopCommenters == Silent("top-commenters-full", {"replies"}, "nothing")
Audience == Screen("m-audience", {SubscribersList, TopCommenters})
CampaignsList == List("marketing-campaigns", {"campaigns"})
AudienceSize == Silent("audience-size", {"subscribers"}, "nothing")
Marketing == Screen("m-marketing", {CampaignsList, AudienceSize})
AccountsList == List("ads-accounts", {"ads"})
Ads == Screen("m-ads", {AccountsList})
SequencesList == List("sequences", {"sequences"})
Sequences == Screen("m-sequences", {SequencesList})
-----------------------------------------------------------------------------
\* support, settings, pages, notifications

SupportInfo == Silent("support-info", {"support"}, "nothing")
TicketsList == List("support-tickets", {"tickets"})
OpenTicket == Past({"support-tickets"}, Act("openTicket", {"tickets"}, {"support-tickets"}, {"openTicket"}))
TicketSheet == Controls({OpenTicket})
Support == Screen("m-support", {SupportInfo, TicketsList, TicketSheet})
ProfileCard == Silent("me", {"users"}, "nothing")
ChangePassword == Act("changePassword", {"password"}, {}, {"changePassword"})
PasswordCard == Controls({ChangePassword})
Settings == Screen("m-settings", {ProfileCard, PasswordCard})
ConnectionCard == Silent("facebook-settings", {"pages"}, "empty")
SaveConnection == Past({"facebook-settings"}, Act("saveConnection", {"pages"}, {"facebook-settings"}, {"saveConnection"}))
TestConnection == Past({"facebook-settings"}, Act("testConnection", {}, {}, {"testConnection"}))
ConnectionForm == Controls({SaveConnection, TestConnection})
Pages == Screen("m-pages", {ConnectionCard, ConnectionForm})
NotificationsList == PolledList("notifications", {"notifications"})
MarkRead == Rowwise(Act("markRead", {"notifications"}, {"notifications"}, {}))
MarkAllRead == Past({"notifications"}, Act("markAllRead", {"notifications"}, {"notifications"}, {"markAllRead"}))
NotificationCards == Controls({MarkRead, MarkAllRead})
Notifications == Screen("m-notifications", {NotificationsList, NotificationCards})
=============================================================================
