----------------------------- MODULE PaymentForm -----------------------------
(***************************************************************************)
(* The form step of the payment dialog: the way to pay (the wallets are     *)
(* closed above their cap, which the configuration may still change), the   *)
(* fields of the way shown, the receipt that is uploaded meanwhile, and     *)
(* what a submission checks and sends.  The dialog stays mounted between    *)
(* openings; closing resets the fields, not the way to pay.                 *)
(***************************************************************************)
EXTENDS Naturals, FiniteSets

CONSTANTS MaxForms  \* bound: openings of the form

ASSUME PaymentFormAssumption == MaxForms \in Nat

VARIABLES price,       \* of the plan, in Prices
          walletCap,   \* what a wallet may pay at most: built in until the configuration arrives
          capLoaded,   \* the configuration has arrived
          payWay,      \* provider
          formOpen, forms,
          phoneTyped, namesTyped,
          receipt,     \* the opening the attached receipt was picked in, or 0
          uploads,     \* uploads under way: the opening each was picked in
          uploadShown, \* uploadingReceipt
          strayReceipt,\* history: an upload ended after its form was closed
          leftover     \* history: a free plan was met by the bank's way

paymentFormVars == <<price, walletCap, capLoaded, payWay, formOpen, forms, phoneTyped, namesTyped, receipt, uploads, uploadShown,
              strayReceipt, leftover>>

Ways == {"liyana", "madar", "bank"}

\* A free plan, and prices below, at and above the built-in cap, which the
\* configuration may lower, keep or raise.
Prices == 0 .. 3
Caps == 1 .. 3
BuiltInCap == 2
NeedsBank(p, cap) == p > cap

\* The effect runs after every rendering.
Switched(p, cap, way) == IF NeedsBank(p, cap) /\ way \in {"liyana", "madar"} THEN "bank" ELSE way
ShownWay == IF price = 0 THEN "free" ELSE payWay

FormTypeOK ==
    /\ payWay \in Ways /\ forms \in 0 .. MaxForms /\ receipt \in 0 .. MaxForms
    /\ uploads \subseteq 1 .. MaxForms /\ price \in Prices /\ walletCap \in Caps

FormInit ==
    /\ price \in Prices /\ walletCap = BuiltInCap /\ capLoaded = FALSE
    /\ payWay = Switched(price, BuiltInCap, "liyana")
    /\ formOpen = FALSE /\ forms = 0 /\ phoneTyped = FALSE /\ namesTyped = FALSE
    /\ receipt = 0 /\ uploads = {} /\ uploadShown = FALSE /\ strayReceipt = FALSE /\ leftover = FALSE

LoadCap ==
    /\ ~capLoaded /\ capLoaded' = TRUE
    /\ walletCap' \in Caps /\ payWay' = Switched(price, walletCap', payWay)
    /\ UNCHANGED <<price, formOpen, forms, phoneTyped, namesTyped, receipt, uploads, uploadShown, strayReceipt, leftover>>
ChangePlan(p) ==
    /\ ~formOpen /\ p # price /\ price' = p /\ payWay' = Switched(p, walletCap, payWay)
    /\ leftover' = (p = 0 /\ payWay = "bank")
    /\ UNCHANGED <<walletCap, capLoaded, formOpen, forms, phoneTyped, namesTyped, receipt, uploads, uploadShown, strayReceipt>>
OpenForm ==
    /\ ~formOpen /\ forms < MaxForms /\ forms' = forms + 1 /\ formOpen' = TRUE
    /\ UNCHANGED <<price, walletCap, capLoaded, payWay, phoneTyped, namesTyped, receipt, uploads, uploadShown, strayReceipt, leftover>>
CloseForm ==
    /\ formOpen /\ formOpen' = FALSE /\ phoneTyped' = FALSE /\ namesTyped' = FALSE /\ receipt' = 0
    /\ UNCHANGED <<price, walletCap, capLoaded, payWay, forms, uploads, uploadShown, strayReceipt, leftover>>

\* The tabs are shown for a plan with a price; the wallets' are closed above the cap.
PickWay(w) ==
    /\ formOpen /\ price # 0 /\ (NeedsBank(price, walletCap) => w = "bank") /\ payWay' = w
    /\ UNCHANGED <<price, walletCap, capLoaded, formOpen, forms, phoneTyped, namesTyped, receipt, uploads, uploadShown, strayReceipt, leftover>>
TypePhone ==
    /\ formOpen /\ ShownWay # "bank" /\ phoneTyped' = TRUE
    /\ UNCHANGED <<price, walletCap, capLoaded, payWay, formOpen, forms, namesTyped, receipt, uploads, uploadShown, strayReceipt, leftover>>
TypeNames ==
    /\ formOpen /\ ShownWay = "bank" /\ namesTyped' = TRUE
    /\ UNCHANGED <<price, walletCap, capLoaded, payWay, formOpen, forms, phoneTyped, receipt, uploads, uploadShown, strayReceipt, leftover>>

MayPickAgain == TRUE                                                   \* mutant
MayPick == ~uploadShown
PickReceipt ==
    /\ formOpen /\ ShownWay = "bank" /\ MayPick
    /\ uploads' = uploads \cup {forms} /\ uploadShown' = TRUE
    /\ UNCHANGED <<price, walletCap, capLoaded, payWay, formOpen, forms, phoneTyped, namesTyped, receipt, strayReceipt, leftover>>
ReceiptUploaded(n) ==
    /\ uploads' = uploads \ {n} /\ uploadShown' = FALSE /\ receipt' = n
    /\ strayReceipt' = (strayReceipt \/ ~formOpen \/ n # forms)
    /\ UNCHANGED <<price, walletCap, capLoaded, payWay, formOpen, forms, phoneTyped, namesTyped, leftover>>
UploadFails(n) ==
    /\ uploads' = uploads \ {n} /\ uploadShown' = FALSE
    /\ UNCHANGED <<price, walletCap, capLoaded, payWay, formOpen, forms, phoneTyped, namesTyped, receipt, strayReceipt, leftover>>
DropReceipt ==
    /\ formOpen /\ ShownWay = "bank" /\ receipt # 0 /\ receipt' = 0
    /\ UNCHANGED <<price, walletCap, capLoaded, payWay, formOpen, forms, phoneTyped, namesTyped, uploads, uploadShown, strayReceipt, leftover>>

\* What handleSent checks before it sends (the request is the module Checkout's).
Accepted == IF payWay = "bank" THEN namesTyped ELSE phoneTyped
FormFilled == IF ShownWay = "bank" THEN namesTyped ELSE phoneTyped

FormNext ==
    \/ LoadCap \/ OpenForm \/ CloseForm \/ TypePhone \/ TypeNames \/ PickReceipt \/ DropReceipt
    \/ \E p \in Prices : ChangePlan(p)
    \/ \E w \in Ways : PickWay(w)
    \/ \E n \in uploads : ReceiptUploaded(n) \/ UploadFails(n)
FormSpec == FormInit /\ [][FormNext]_paymentFormVars
-----------------------------------------------------------------------------
\* No price and no cap that arrive leave a form shown of which another one is
\* checked, or a wallet that is to pay more than the cap - unless a free plan
\* follows a bank transfer.
FilledFormIsAccepted == formOpen /\ ~leftover => (FormFilled <=> Accepted)
NoWalletAboveCap == NeedsBank(price, walletCap) => payWay = "bank"

\* One receipt is uploaded at a time, closing and reopening included, and the
\* receipt attached was picked in this opening unless an upload ended late.
ReceiptIsOfThisForm == Cardinality(uploads) <= 1 /\ (formOpen /\ ~strayReceipt => receipt \in {0, forms})
=============================================================================
