-------------------------------- MODULE MCUsers --------------------------------
(***************************************************************************)
(* What a user does, for TLC.  At the server: signing in (Accounts), paying *)
(* in (Deposits), handing in a document (Kyc), asking for one-time          *)
(* passwords (RateLimits).  On the pages: signing in from several tabs      *)
(* (SignInPage), the listings (Listings), a purchase from tabs that share   *)
(* a sign-in (TradePage), the withdrawal and the deposit dialog (WalletPage, *)
(* DepositDialog), the history of trades (TradeHistory), the deletion of an *)
(* account (AccountDeletion), the KYC form (KycPage) and the tray of        *)
(* notifications (Notifications).                                           *)
(*                                                                         *)
(* They share no state in the code but rows that one of them writes and    *)
(* the token in localStorage, so each behaviour is one of theirs: `focus`   *)
(* says whose, and the others stay as they start.  UsersProofs is about any *)
(* values of the constants; those TLC takes are in the cfg and at the end.  *)
(***************************************************************************)
EXTENDS Naturals, Sequences, FiniteSets, TLC

CONSTANTS
  None,
  Users, Phones, Handlers, MaxSms, MaxWallets, MaxVersion,              \* Accounts
  Payers, Numbers, FirstNumber, Workers, MaxPayments, MaxTries,         \* Deposits, twice
  Applicants, Replicas, KycMaxSubmissions, MaxUploads, MaxDays,         \* Kyc
  Requests, Mobiles, Addresses, MaxRequests,                            \* RateLimits
  Destinations, Balance, OnChain, MaxKeys, MaxEdits, MaxLoads,          \* WalletPage
  Tabs, Traders, Seller,                                                \* TradePage
  OwnPhones, MaxCodes,                                                  \* SignInPage
  Filters, All, MaxFetches,                                             \* Listings
  Viewers, MaxPages,                                                    \* TradeHistory
  Leavers, Wait, Calls,                                                 \* AccountDeletion
  Documents, Unfit,                                                     \* KycPage
  MaxRetries, MaxEntries, MaxToasts,                                    \* Notifications
  Amounts, MinDeposit, MaxDeposits                                      \* DepositDialog

VARIABLES
  focus,
  phone, version, pinOf, keyOf, wallet, codes, request, smsTo, generated, sessions, spent,
  redeemed,
  number, account, customer, owner, provision, backlog, payments, events, jobs, replays,
  settled, credits, losses, passedOn,
  status, document, objects, deleting, submission, uploads, attempts, day, scan, notices,
  texts, abandoned,
  otp, locks, window, sent,
  page, shown, dialog, sending, kept, keysMade, network, answer, balance, debits, heard,
  lookups, edits, loads,
  storage, view, asked, record, aside, count   \* the pages'

accounts == <<phone, version, pinOf, keyOf, wallet, codes, request, smsTo, generated, sessions,
              spent, redeemed>>
deposits == <<number, account, customer, owner, provision, backlog, payments, events, jobs,
              replays, settled, credits, losses, passedOn>>
kyc      == <<status, document, objects, deleting, submission, uploads, attempts, day, scan,
              notices, texts, abandoned>>
limits   == <<otp, locks, window, sent>>
dialogue == <<page, shown, dialog, sending, kept, keysMade, network, answer, balance, debits,
              heard, lookups, edits, loads>>
server   == <<accounts, deposits, kyc, limits>>
pages    == <<storage, view, asked, record, aside, count>>

A == INSTANCE Accounts WITH NoUser <- None, NoPhone <- None, MaxKeys <- MaxWallets

D(bounds) == INSTANCE Deposits WITH
       Users <- Payers, NoUser <- None, Phones <- Numbers, NoPhone <- None,
       MaxPassed <- bounds.passed, MaxAccounts <- bounds.accounts,
       MaxEvents <- bounds.events, MaxLosses <- bounds.losses

\* Deposits twice: with two events, and with numbers that change hands and a second account.
OneAccount  == [passed |-> 0, accounts |-> 1, events |-> 2, losses |-> 2]
NumbersPass == [passed |-> 2, accounts |-> 2, events |-> 1, losses |-> 1]

K == INSTANCE Kyc WITH Users <- Applicants, NoUser <- None

R == INSTANCE RateLimits WITH Numbers <- Mobiles

W == INSTANCE WalletPage

\* The pages share their variables, as only one of them moves: what the tabs have in common
\* (`storage`), what is shown, the requests under way, the server's record, and two more.
T == INSTANCE TradePage WITH
       Users <- Traders, token <- storage, tab <- view, req <- asked, row <- record,
       depositor <- aside

S == INSTANCE SignInPage WITH
       Phones <- OwnPhones, NoPhone <- None,
       stored <- storage, signIns <- record, code <- aside, sent <- count

L == INSTANCE Listings WITH
       NoAnswer <- None, MaxRequests <- MaxFetches,
       cacheMap <- storage, requests <- asked, inFlight <- aside

H == INSTANCE TradeHistory WITH Users <- Viewers, NoUser <- None, token <- storage

X == INSTANCE AccountDeletion WITH
       Users <- Leavers, NoUser <- None, NoCall <- None,
       token <- storage, dialog <- view, deletion <- asked, account <- record, cancelling <- aside

F == INSTANCE KycPage WITH
       NoFile <- None, NoCall <- None,
       page <- view, submission <- asked, review <- record, urls <- aside

E == INSTANCE Notifications WITH
       stored <- storage, tray <- view, hook <- asked, toasts <- count

Q == INSTANCE DepositDialog WITH
       MaxPayments <- MaxDeposits,
       token <- storage, page <- aside, dialog <- view, shown <- record, script <- count,
       payments <- asked

ASSUME InstancesAssumption ==
  /\ D(OneAccount)!Parameters /\ D(NumbersPass)!Parameters
  /\ W!Parameters /\ T!Parameters /\ S!Parameters /\ L!Parameters /\ H!Parameters
  /\ X!Parameters /\ F!Parameters /\ E!Parameters /\ Q!Parameters

Init ==
  /\ A!Init /\ D(OneAccount)!Init /\ K!Init /\ R!Init /\ W!Init
  /\ \/ focus = "trade"    /\ T!Init /\ count = None
     \/ focus = "signin"   /\ S!Init
     \/ focus = "listings" /\ L!Init /\ record = None /\ count = None
     \/ focus = "history"  /\ H!Init /\ asked = None /\ record = None /\ aside = None /\ count = None
     \/ focus = "deletion" /\ X!Init /\ count = None
     \/ focus = "kycForm"  /\ F!Init /\ storage = None /\ count = None
     \/ focus = "tray"     /\ E!Init /\ record = None /\ aside = None
     \/ focus = "checkout" /\ Q!Init
     \/ /\ focus \in {"accounts", "deposits", "numbers", "kyc", "limits", "wallet"}
        /\ storage = None /\ view = None /\ asked = None
        /\ record = None /\ aside = None /\ count = None

AtTheServer ==
  /\ \/ focus = "accounts" /\ A!Next /\ UNCHANGED <<deposits, kyc, limits>>
     \/ focus = "deposits" /\ D(OneAccount)!Next /\ UNCHANGED <<accounts, kyc, limits>>
     \/ focus = "numbers"  /\ D(NumbersPass)!Next /\ UNCHANGED <<accounts, kyc, limits>>
     \/ focus = "kyc"      /\ K!Next /\ UNCHANGED <<accounts, deposits, limits>>
     \/ focus = "limits"   /\ R!Next /\ UNCHANGED <<accounts, deposits, kyc>>
  /\ UNCHANGED <<dialogue, pages>>

OnThePages ==
  /\ \/ focus = "trade"    /\ T!Next /\ UNCHANGED count
     \/ focus = "signin"   /\ S!Next
     \/ focus = "listings" /\ L!Next /\ UNCHANGED <<record, count>>
     \/ focus = "history"  /\ H!Next /\ UNCHANGED <<asked, record, aside, count>>
     \/ focus = "deletion" /\ X!Next /\ UNCHANGED count
     \/ focus = "kycForm"  /\ F!Next /\ UNCHANGED <<storage, count>>
     \/ focus = "tray"     /\ E!Next /\ UNCHANGED <<record, aside>>
     \/ focus = "checkout" /\ Q!Next
  /\ UNCHANGED <<server, dialogue>>

Next ==
  /\ UNCHANGED focus
  /\ \/ AtTheServer
     \/ OnThePages
     \/ focus = "wallet" /\ W!Next /\ UNCHANGED <<server, pages>>

Spec == Init /\ [][Next]_<<focus, server, dialogue, pages>>


-----------------------------------------------------------------------------
(* The components' properties.                                             *)

\* Every row, handler and dialog has the type its column or declaration gives it, and no
\* two users have one number.
TypeOK ==
  /\ focus = "accounts" => A!TypeOK
  /\ focus = "deposits" => D(OneAccount)!TypeOK
  /\ focus = "numbers"  => D(NumbersPass)!TypeOK
  /\ focus = "kyc"      => K!TypeOK
  /\ focus = "limits"   => R!TypeOK
  /\ focus = "wallet"   => W!TypeOK
  /\ focus = "trade"    => T!TypeOK
  /\ focus = "signin"   => S!TypeOK
  /\ focus = "listings" => L!TypeOK
  /\ focus = "history"  => H!TypeOK
  /\ focus = "deletion" => X!TypeOK
  /\ focus = "kycForm"  => F!TypeOK
  /\ focus = "tray"     => E!TypeOK
  /\ focus = "checkout" => Q!TypeOK

\* auth.ts, recoveryCodes.ts, rateLimitOtp.ts: a session that still works was signed in with
\* the number its user has now, a recovery code is accepted once, however many requests
\* bring it, and no number and no address gets more passwords than the limit allows.
SignInIsGuarded ==
  /\ focus = "accounts" => A!SessionsMatchPhone /\ A!CodesAreSingleUse
  /\ focus = "limits"   => R!OtpWithinLimit

\* paystackWebhookHandlers.ts: a payment is credited once, to who made it, unless the number
\* it was made under changed hands since; and an event is marked processed only when its
\* payment was credited or found to be nobody's.  DepositModal.tsx: one payment of a tab is
\* under way at a time, with its dialog open; who polls says so; and what the page adds to
\* the balance before the server does was paid.
DepositsAreCredited ==
  /\ focus = "deposits" => /\ D(OneAccount)!CreditedOnce /\ D(OneAccount)!CreditedToThePayer
                           /\ D(OneAccount)!ProcessedIsSettled
  /\ focus = "numbers"  => /\ D(NumbersPass)!CreditedOnce /\ D(NumbersPass)!CreditedToThePayer
                           /\ D(NumbersPass)!ProcessedIsSettled
  /\ focus = "checkout" => Q!OnePaymentAtATime /\ Q!PollingIsShown /\ Q!ShownIsPaid

\* kyc.ts, kycExpiry.ts: the document under review is in the store, no other one is
\* forgotten there, and a user is warned of its expiry once a day.  kyc/page.tsx: whatever is
\* chosen, changed and answered meanwhile, what is handed in was checked, what the page says
\* of it is so, unless its submission overlapped another, and its preview is of the chosen
\* document.
DocumentsAreKept ==
  /\ focus = "kyc"     => K!DocumentOnFile /\ K!NoForgottenDocument /\ K!WarnedOnceADay
  /\ focus = "kycForm" =>
       F!SentIsValid /\ F!PendingIsTrue /\ F!PreviewIsOfDocument /\ F!ProgressIsOfAnUpload

\* WithdrawModal.tsx: a form submitted again after a network error does not withdraw twice.
RetriesDebitOnce == focus = "wallet" => W!RetriesDebitOnce

\* TradeDetailClient.tsx, trades.ts, stellar.ts: whoever signs in or out in whichever tab, a
\* trade is bought by the user whose deposit the contract has, and a page that shows it as
\* bought or disputed is right.
PurchasesMatchDeposits ==
  focus = "trade" => T!BuyerIsDepositor /\ T!ConfirmedIsBought /\ T!DisputeShownIsFiled

\* auth/verify/page.tsx, AuthContext.tsx, apiFetch.ts: whichever tab signs in or out and
\* whichever answer comes late, the cookie and the token are of one session; and a tab that
\* verified its number has the session that came of it or, if the 401 of an older request
\* cleared it, none, but never another's.
SignInsAreWhole == focus = "signin" => S!CookieIsTheSession /\ S!VerifiedHasItsSession

\* useTradeList.ts, ListingsGrid.tsx: with pages left and filters changed meanwhile, the offers
\* shown are of the filter that the controls show, unless its own are still awaited or the
\* answer that came last was to a request for an earlier filter; a filter has one request at a
\* time, and no spinner stays.  profile/page.tsx: the trades of the history are of the filter
\* and the page that the controls show.
ListingsAreOfFilter ==
  /\ focus = "listings" => L!OneRequestPerFilter /\ L!ShownIsOfFilter /\ L!SpinnersEnd
  /\ focus = "history"  => H!HistoryIsOfFilter

\* profile/page.tsx, profile.ts: an account is only deleted by a user who waited and typed
\* the phrase in the dialog that is open, a deletion is dated once, and a dialog closed with
\* a request under way was closed by its user.
DeletionsAreMeant ==
  focus = "deletion" => X!DeletionIsConfirmed /\ X!OneDateIsSet /\ X!RequestIsShown

\* useTradeNotifications.ts, NotificationTray.tsx: a tab has one stream or one timer for the
\* next, gives up after its retries, and the unread entries of a tray are its newest.
OneStreamPerTab == focus = "tray" => E!OneStreamPerTab /\ E!UnreadAreNewest

-----------------------------------------------------------------------------
(* Values for TLC.                                                         *)

CONSTANTS
  h1, h2, d1, d2, v1, v2, n1, n2

\* Each payer starts with a number of their own.
OwnNumbers == v1 :> n1 @@ v2 :> n2

\* Which number is which does not matter to Accounts, which buyer not to TradePage, which
\* document not to KycPage; nor which payer, with the number that is theirs at first, to
\* Deposits, which destination or viewer, and which handler, tab or call.  No behaviour has
\* more than one kind of the latter, so that they change places all at once.
Names ==
  Permutations(Phones)
    \cup {h1 :> h2 @@ h2 :> h1 @@ d1 :> d2 @@ d2 :> d1 @@ v1 :> v2 @@ v2 :> v1 @@ n1 :> n2 @@ n2 :> n1}

=============================================================================
