-------------------------------- MODULE Accounts --------------------------------
(***************************************************************************)
(* Signing in: one-time passwords, sessions and their revocation, recovery *)
(* codes, the change of a lost phone number, and the wallet made at the    *)
(* first sign-in.                                                          *)
(*   server/src/routes/auth.ts              the handlers                   *)
(*   server/src/services/recoveryCodes.ts   redeemRecoveryCode             *)
(*   server/src/middleware/authenticate.ts  isTokenVersionCurrent          *)
(*   server/src/services/cache.ts           the list of spent tokens       *)
(*                                                                         *)
(* A handler is cut at every query and every call of Termii or Friendbot;  *)
(* `request[h]` is handler h's step and what it remembers.                 *)
(*                                                                         *)
(* Left out: rate limits, expiry of what is not used in time (a step that  *)
(* is refused is no step), referral rows.  Recovery codes come from        *)
(* account support (auth.ts:286): the INSERT at the first sign-in names    *)
(* four parameters and is given eight.                                     *)
(* Name_Variant is Name with a plausible mistake in it, as in Escrow.      *)
(***************************************************************************)
EXTENDS Naturals, Sequences

CONSTANTS
  Users,        \* rows of `users`, signed up or not
  NoUser,
  Phones,
  NoPhone,
  Handlers,     \* bound: requests under way at once
  MaxSms,       \* bound: one-time passwords sent
  MaxKeys,      \* bound: wallets generated
  MaxVersion    \* bound: token versions of a user

Pins     == 0..MaxSms     \* 0: NULL
Keys     == 0..MaxKeys
Versions == 0..MaxVersion

Steps ==
  {"idle", "sending", "storing",                                       \* an OTP
   "checking", "verified", "funding", "inserting", "mirroring", "signing",
   "redeeming",
   "changing", "updating", "revoking"}

Handler ==
  [step : Steps, user : Users \cup {NoUser}, phone : Phones \cup {NoPhone},
   pin : Pins, version : Versions, key : Keys]

Idle == [step |-> "idle", user |-> NoUser, phone |-> NoPhone, pin |-> 0, version |-> 0, key |-> 0]

\* A token, without its copy of the wallet's key.  A recovery token has no version (0)
\* and no number; its scope only matters to change-phone.
Session == [user : Users, version : Versions, phone : Phones \cup {NoPhone}, pin : Pins]

RecoveryToken(u) == [user |-> u, version |-> 0, phone |-> NoPhone, pin |-> 0]

VARIABLES
  phone,      \* users.phone; NoPhone: no such row yet
  version,    \* users.token_version
  pinOf,      \* users.otp_pin_id
  keyOf,      \* users.stellar_public_key
  wallet,     \* wallets.stellar_public_key; 0: no row
  codes,      \* recovery_codes, one per user
  request,    \* the handlers
  smsTo,      \* Termii: the number each password was sent to
  generated,  \* wallets generated so far
  sessions,   \* tokens handed out, the recovery tokens among them
  spent,      \* cache: revoked_recovery_token
  redeemed    \* history: redemptions of each code

rows == <<phone, version, pinOf, keyOf, wallet, codes>>
vars == <<rows, request, smsTo, generated, sessions, spent, redeemed>>

Init ==
  /\ phone = [u \in Users |-> NoPhone]
  /\ version = [u \in Users |-> 1]
  /\ pinOf = [u \in Users |-> 0]
  /\ keyOf = [u \in Users |-> 0]
  /\ wallet = [u \in Users |-> 0]
  /\ codes = [u \in Users |-> "none"]
  /\ request = [h \in Handlers |-> Idle]
  /\ smsTo = << >>
  /\ generated = 0
  /\ sessions = {}
  /\ spent = {}
  /\ redeemed = [u \in Users |-> 0]

At(h, step) == request[h].step = step
Goto(h, step) == request' = [request EXCEPT ![h].step = step]
End(h) == request' = [request EXCEPT ![h] = Idle]

\* A query or a call fails and the handler answers with an error.
Fail(h) ==
  /\ request[h].step \in {"sending", "checking", "redeeming", "changing"}
  /\ End(h)
  /\ UNCHANGED <<rows, smsTo, generated, sessions, spent, redeemed>>

-----------------------------------------------------------------------------
(* POST /request-otp, and sendOtp.                                         *)

\* The row is made at the first request for a number.
RequestOtp(h, p) ==
  /\ At(h, "idle")
  /\ \/ /\ \E u \in Users : phone[u] = p
        /\ UNCHANGED phone
     \/ /\ \A u \in Users : phone[u] # p
        /\ \E u \in Users : phone[u] = NoPhone /\ phone' = [phone EXCEPT ![u] = p]
  /\ request' = [request EXCEPT ![h] = [Idle EXCEPT !.step = "sending", !.phone = p]]
  /\ UNCHANGED <<version, pinOf, keyOf, wallet, codes, smsTo, generated, sessions,
                 spent, redeemed>>

SendSms(h) ==
  /\ At(h, "sending")
  /\ Len(smsTo) < MaxSms                                   \* bound
  /\ smsTo' = Append(smsTo, request[h].phone)
  /\ request' = [request EXCEPT ![h].step = "storing", ![h].pin = Len(smsTo) + 1]
  /\ UNCHANGED <<rows, generated, sessions, spent, redeemed>>

\* The pin goes to whoever has the number by now.
StorePin(h) ==
  /\ At(h, "storing")
  /\ pinOf' = [u \in Users |-> IF phone[u] = request[h].phone THEN request[h].pin ELSE pinOf[u]]
  /\ End(h)
  /\ UNCHANGED <<phone, version, keyOf, wallet, codes, smsTo, generated, sessions,
                 spent, redeemed>>

-----------------------------------------------------------------------------
(* POST /verify-otp.                                                       *)

\* One SELECT reads the user, the pin, the token version and the wallet.
VerifyOtp(h, u) ==
  /\ At(h, "idle")
  /\ phone[u] # NoPhone
  /\ pinOf[u] # 0
  /\ request' = [request EXCEPT ![h] =
       [step |-> "checking", user |-> u, phone |-> phone[u], pin |-> pinOf[u],
        version |-> version[u], key |-> wallet[u]]]
  /\ UNCHANGED <<rows, smsTo, generated, sessions, spent, redeemed>>

Verified(h) ==
  /\ At(h, "checking")
  /\ Goto(h, "verified")
  /\ UNCHANGED <<rows, smsTo, generated, sessions, spent, redeemed>>

\* Whatever pin the row has by now.
ClearPin(h) ==
  /\ At(h, "verified")
  /\ pinOf' = [pinOf EXCEPT ![request[h].user] = 0]
  /\ Goto(h, IF request[h].key = 0 THEN "funding" ELSE "signing")
  /\ UNCHANGED <<phone, version, keyOf, wallet, codes, smsTo, generated, sessions,
                 spent, redeemed>>

\* generateAndFundWallet: a new key pair each time.
FundWallet(h) ==
  /\ At(h, "funding")
  /\ generated < MaxKeys                                   \* bound
  /\ generated' = generated + 1
  /\ request' = [request EXCEPT ![h].step = "inserting", ![h].key = generated + 1]
  /\ UNCHANGED <<rows, smsTo, sessions, spent, redeemed>>

\* The upsert: a wallet made meanwhile is overwritten.
InsertWallet(h) ==
  /\ At(h, "inserting")
  /\ wallet' = [wallet EXCEPT ![request[h].user] = request[h].key]
  /\ Goto(h, "mirroring")
  /\ UNCHANGED <<phone, version, pinOf, keyOf, codes, smsTo, generated, sessions,
                 spent, redeemed>>

MirrorKey(h) ==
  /\ At(h, "mirroring")
  /\ keyOf' = [keyOf EXCEPT ![request[h].user] = request[h].key]
  /\ Goto(h, "signing")
  /\ UNCHANGED <<phone, version, pinOf, wallet, codes, smsTo, generated, sessions,
                 spent, redeemed>>

\* The catch around the three: signing in goes on without a key.
ProvisioningFails(h) ==
  /\ request[h].step \in {"funding", "inserting", "mirroring"}
  /\ request' = [request EXCEPT ![h].step = "signing", ![h].key = 0]
  /\ UNCHANGED <<rows, smsTo, generated, sessions, spent, redeemed>>

\* The token carries the version read with the phone number.
SignIn_FreshVersion(h) ==
  LET r == request[h]
  IN  /\ At(h, "signing")
      /\ sessions' = sessions \cup
           {[user |-> r.user, version |-> version[r.user], phone |-> r.phone, pin |-> r.pin]}
      /\ End(h)
      /\ UNCHANGED <<rows, smsTo, generated, spent, redeemed>>

SignIn(h) ==
  LET r == request[h]
  IN  /\ At(h, "signing")
      /\ sessions' = sessions \cup
           {[user |-> r.user, version |-> r.version, phone |-> r.phone, pin |-> r.pin]}
      /\ End(h)
      /\ UNCHANGED <<rows, smsTo, generated, spent, redeemed>>

\* authenticate and isTokenVersionCurrent: a token without a version counts as of
\* version 1, and no scope is looked at.
Current(s) == (IF s.version = 0 THEN 1 ELSE s.version) = version[s.user]

\* POST /revoke, with a token that is current.
Revoke(s) ==
  /\ Current(s)
  /\ version[s.user] < MaxVersion                          \* bound
  /\ version' = [version EXCEPT ![s.user] = @ + 1]
  /\ UNCHANGED <<phone, pinOf, keyOf, wallet, codes, request, smsTo, generated, sessions,
                 spent, redeemed>>

-----------------------------------------------------------------------------
(* POST /recover and POST /recover/change-phone.                           *)

\* External: account support gives a user its codes.
IssueCodes(u) ==
  /\ phone[u] # NoPhone
  /\ codes[u] = "none"
  /\ codes' = [codes EXCEPT ![u] = "unused"]
  /\ UNCHANGED <<phone, version, pinOf, keyOf, wallet, request, smsTo, generated, sessions,
                 spent, redeemed>>

\* SELECT ... FOR UPDATE: waits for the transaction that has the row.
Recover_Unlocked(h, u) ==
  /\ At(h, "idle")
  /\ codes[u] = "unused"
  /\ request' = [request EXCEPT ![h] = [Idle EXCEPT !.step = "redeeming", !.user = u]]
  /\ UNCHANGED <<rows, smsTo, generated, sessions, spent, redeemed>>

Recover(h, u) ==
  /\ At(h, "idle")
  /\ codes[u] = "unused"
  /\ \A g \in Handlers : ~(At(g, "redeeming") /\ request[g].user = u)
  /\ request' = [request EXCEPT ![h] = [Idle EXCEPT !.step = "redeeming", !.user = u]]
  /\ UNCHANGED <<rows, smsTo, generated, sessions, spent, redeemed>>

\* used_at is set, the transaction commits, the recovery token goes out.
Redeem(h) ==
  LET u == request[h].user
  IN  /\ At(h, "redeeming")
      /\ codes' = [codes EXCEPT ![u] = "used"]
      /\ redeemed' = [redeemed EXCEPT ![u] = IF @ = 2 THEN 2 ELSE @ + 1]
      /\ sessions' = sessions \cup {RecoveryToken(u)}
      /\ End(h)
      /\ UNCHANGED <<phone, version, pinOf, keyOf, wallet, smsTo, generated, spent>>

\* The token is not in the list of spent ones.
ChangePhone(h, u, p) ==
  /\ At(h, "idle")
  /\ RecoveryToken(u) \in sessions
  /\ u \notin spent
  /\ request' = [request EXCEPT ![h] = [Idle EXCEPT !.step = "changing", !.user = u, !.phone = p]]
  /\ UNCHANGED <<rows, smsTo, generated, sessions, spent, redeemed>>

\* The number belongs to nobody else.
CheckPhone(h) ==
  /\ At(h, "changing")
  /\ \A u \in Users \ {request[h].user} : phone[u] # request[h].phone
  /\ Goto(h, "updating")
  /\ UNCHANGED <<rows, smsTo, generated, sessions, spent, redeemed>>

\* One UPDATE; users.phone is unique.
UpdatePhone(h) ==
  LET u == request[h].user
  IN  /\ At(h, "updating")
      /\ version[u] < MaxVersion                           \* bound
      /\ IF \E v \in Users \ {u} : phone[v] = request[h].phone
         THEN End(h) /\ UNCHANGED <<phone, version>>
         ELSE /\ phone' = [phone EXCEPT ![u] = request[h].phone]
              /\ version' = [version EXCEPT ![u] = @ + 1]
              /\ Goto(h, "revoking")
      /\ UNCHANGED <<pinOf, keyOf, wallet, codes, smsTo, generated, sessions, spent,
                     redeemed>>

\* The token is spent, and a password goes to the new number.
RevokeToken(h) ==
  /\ At(h, "revoking")
  /\ spent' = spent \cup {request[h].user}
  /\ Goto(h, "sending")
  /\ UNCHANGED <<rows, smsTo, generated, sessions, redeemed>>

\* The server restarts: handlers end where they are; the list of spent tokens may be
\* in memory.
Restart ==
  /\ request' = [h \in Handlers |-> Idle]
  /\ spent' \in {spent, {}}
  /\ UNCHANGED <<rows, smsTo, generated, sessions, redeemed>>

-----------------------------------------------------------------------------
HandlerStep(h) ==
  \/ SendSms(h) \/ StorePin(h)
  \/ Verified(h) \/ ClearPin(h)
  \/ FundWallet(h) \/ InsertWallet(h) \/ MirrorKey(h) \/ ProvisioningFails(h)
  \/ SignIn(h)
  \/ Redeem(h)
  \/ CheckPhone(h) \/ UpdatePhone(h) \/ RevokeToken(h)
  \/ Fail(h)

Next ==
  \/ \E h \in Handlers : HandlerStep(h)
  \/ \E h \in Handlers, p \in Phones : RequestOtp(h, p)
  \/ \E h \in Handlers, u \in Users : VerifyOtp(h, u) \/ Recover(h, u)
  \/ \E h \in Handlers, u \in Users, p \in Phones : ChangePhone(h, u, p)
  \/ \E s \in sessions : Revoke(s)
  \/ \E u \in Users : IssueCodes(u)
  \/ Restart

Spec == Init /\ [][Next]_vars

-----------------------------------------------------------------------------
(* Properties.                                                             *)

\* No two users have one number.
TypeOK ==
  /\ phone \in [Users -> Phones \cup {NoPhone}]
  /\ \A u, v \in Users : phone[u] = phone[v] /\ phone[u] # NoPhone => u = v
  /\ version \in [Users -> Versions]
  /\ pinOf \in [Users -> 0..Len(smsTo)]
  /\ keyOf \in [Users -> Keys]
  /\ wallet \in [Users -> Keys]
  /\ codes \in [Users -> {"none", "unused", "used"}]
  /\ request \in [Handlers -> Handler]
  /\ smsTo \in Seq(Phones)
  /\ generated \in Keys
  /\ sessions \subseteq Session
  /\ spent \subseteq Users

\* A session that still works was signed in with the number its user has now: a
\* sign-in that a change of the number overtakes yields a token that is dead.
SessionsMatchPhone ==
  \A s \in sessions : s.version # 0 /\ Current(s) => s.phone = phone[s.user]

\* A recovery code is accepted once, however many requests bring it at a time.
CodesAreSingleUse == \A u \in Users : redeemed[u] <= 1

\* auth.ts:392-393 says of the recovery token that it is "scoped to recovery so it can
\* never be used as a normal session token".
RecoveryTokensOnlyRecover == \A u \in Users : RecoveryToken(u) \in sessions => ~Current(RecoveryToken(u))

=============================================================================
