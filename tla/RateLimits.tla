------------------------------- MODULE RateLimits -------------------------------
(***************************************************************************)
(* The limit on one-time passwords, by number and by address, kept in a    *)
(* table.                                                                  *)
(*   server/src/middleware/rateLimitOtp.ts                                 *)
(*                                                                         *)
(* A transaction sees the rows that are committed and its own; a row       *)
(* leaves the window when the rows before it have.                         *)
(* Name_Variant is Name with a plausible mistake in it, as in Escrow.      *)
(***************************************************************************)
EXTENDS Naturals, FiniteSets, Sequences

CONSTANTS
  Requests,        \* bound: requests
  Numbers, Addresses, None,
  MaxRequests      \* maxRequests of getOtpRateLimitConfig

VARIABLES
  otp,        \* requests for a password, each with its transaction's step
  locks,      \* advisory locks: key -> the requests that hold it
  window,     \* committed rows of otp_requests inside the window, oldest first
  sent        \* requests that were let through and counted

vars == <<otp, locks, window, sent>>

LockKeys == Numbers \cup Addresses

Otp == [step : {"new", "begun", "numbered", "locked", "counted", "ended"},
        number : Numbers \cup {None}, address : Addresses \cup {None}]

Init ==
  /\ otp = [r \in Requests |-> [step |-> "new", number |-> None, address |-> None]]
  /\ locks = [k \in LockKeys |-> {}]
  /\ window = << >>
  /\ sent = {}

Goto(r, step) == otp' = [otp EXCEPT ![r].step = step]

-----------------------------------------------------------------------------
(* checkOtpRateLimit.                                                      *)

Begin(r, n, a) ==
  /\ otp[r].step = "new"
  /\ otp' = [otp EXCEPT ![r] = [step |-> "begun", number |-> n, address |-> a]]
  /\ UNCHANGED <<locks, window, sent>>

\* The locks in the order of their sorted keys: the number's before the address's.
Lock_Shared(r) ==
  \/ /\ otp[r].step = "begun"
     /\ locks' = [locks EXCEPT ![otp[r].number] = @ \cup {r}]
     /\ Goto(r, "numbered")
     /\ UNCHANGED <<window, sent>>
  \/ /\ otp[r].step = "numbered"
     /\ locks[otp[r].address] = {}
     /\ locks' = [locks EXCEPT ![otp[r].address] = {r}]
     /\ Goto(r, "locked")
     /\ UNCHANGED <<window, sent>>

Lock(r) ==
  \/ /\ otp[r].step = "begun"
     /\ locks[otp[r].number] = {}
     /\ locks' = [locks EXCEPT ![otp[r].number] = {r}]
     /\ Goto(r, "numbered")
     /\ UNCHANGED <<window, sent>>
  \/ /\ otp[r].step = "numbered"
     /\ locks[otp[r].address] = {}
     /\ locks' = [locks EXCEPT ![otp[r].address] = {r}]
     /\ Goto(r, "locked")
     /\ UNCHANGED <<window, sent>>

Unlocked(r) == [k \in LockKeys |-> locks[k] \ {r}]

\* The rows of the window that share r's number, or its address, with its own.
ByNumber(r)  == Cardinality({i \in 1..Len(window) : otp[window[i]].number = otp[r].number}) + 1
ByAddress(r) == Cardinality({i \in 1..Len(window) : otp[window[i]].address = otp[r].address}) + 1

\* The insert, the count, and the answer to it.
Count(r) ==
  /\ otp[r].step = "locked"
  /\ sent' = IF ByNumber(r) <= MaxRequests /\ ByAddress(r) <= MaxRequests
             THEN sent \cup {r} ELSE sent
  /\ Goto(r, "counted")
  /\ UNCHANGED <<locks, window>>

Commit(r) ==
  /\ otp[r].step = "counted"
  /\ window' = Append(window, r)
  /\ locks' = Unlocked(r)
  /\ Goto(r, "ended")
  /\ UNCHANGED <<sent>>

\* ROLLBACK: the row is gone, and the request is let through, uncounted.
FailOpen(r) ==
  /\ otp[r].step \in {"begun", "numbered", "locked", "counted"}
  /\ locks' = Unlocked(r)
  /\ sent' = sent \ {r}
  /\ Goto(r, "ended")
  /\ UNCHANGED <<window>>

OldestExpires ==
  /\ window # << >>
  /\ window' = Tail(window)
  /\ UNCHANGED <<otp, locks, sent>>

-----------------------------------------------------------------------------
Next ==
  \/ \E r \in Requests, n \in Numbers, a \in Addresses : Begin(r, n, a)
  \/ \E r \in Requests : Lock(r) \/ Count(r) \/ Commit(r) \/ FailOpen(r)
  \/ OldestExpires

Spec == Init /\ [][Next]_vars

-----------------------------------------------------------------------------
(* Properties.                                                             *)

TypeOK ==
  /\ otp \in [Requests -> Otp]
  /\ locks \in [LockKeys -> SUBSET Requests]
  /\ window \in Seq(Requests)
  /\ sent \subseteq Requests

\* Of the requests that are inside the window or about to be, no number and no address
\* has more than the limit let through, whatever was counted at the same time.
OtpWithinLimit ==
  LET counted == {r \in sent : otp[r].step = "counted" \/ \E i \in 1..Len(window) : window[i] = r}
  IN  /\ \A n \in Numbers : Cardinality({r \in counted : otp[r].number = n}) <= MaxRequests
      /\ \A a \in Addresses : Cardinality({r \in counted : otp[r].address = a}) <= MaxRequests

=============================================================================
