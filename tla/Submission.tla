------------------------------ MODULE Submission ------------------------------
(***************************************************************************)
(* A Soroban transaction from the moment it is built to its answer:        *)
(*   server/src/services/stellar.ts         the calls and pollForResult    *)
(*   server/src/services/contractErrors.ts  what an error says             *)
(*   server/src/services/tradeVerification.ts  isPermanentError            *)
(*   server/src/routes/trades.ts            POST buy/prepare and buy       *)
(*                                                                         *)
(* release_payment and resolve_dispute are signed with the server's key,   *)
(* so concurrent calls share one account and its sequence number; a        *)
(* deposit is signed in the buyer's browser, which may send one envelope   *)
(* several times.  The RPC node and the ledger are external: the node      *)
(* simulates, queues or refuses, the ledger takes the envelope that has    *)
(* the next sequence number of its account.                                *)
(*                                                                         *)
(* Left out: keys, fees, amounts, tracing; an envelope's time bound is     *)
(* that it may expire at any moment.                                       *)
(* Name_Variant is Name with a plausible mistake in it, as in Escrow.      *)
(***************************************************************************)
EXTENDS Naturals, Sequences

CONSTANTS
  Calls,       \* requests and jobs that want something of the contract
  NoCall,
  Accounts,
  Trades,
  AccountOf,   \* the account that signs each call
  TradeOf,
  OpOf,        \* what each call asks for
  Funded,      \* bound: trades that start with a deposit, the others are unlisted
  MaxPolls     \* MAX_ATTEMPTS of pollForResult

Op == {"create_listing", "deposit_to_escrow", "release_payment", "refund"}

Parameters ==
  /\ NoCall \notin Calls
  /\ AccountOf \in [Calls -> Accounts]
  /\ TradeOf \in [Calls -> Trades]
  /\ OpOf \in [Calls -> Op]
  /\ Funded \subseteq Trades
  /\ MaxPolls \in Nat \ {0}

\* Where an envelope is: with whoever built it, in the node's queue, or over.
Fate == {"kept", "queued", "landed", "failed", "expired"}

VARIABLES
  contract,   \* the contract's state of each trade
  sequence,   \* the sequence number of each account
  call,       \* where each call is, the envelope it sends and its answer
  seqOf,      \* the sequence number of the envelope each call built
  fate        \* and what became of it

vars == <<contract, sequence, call, seqOf, fate>>

Init ==
  /\ contract = [t \in Trades |-> IF t \in Funded THEN "funded" ELSE "none"]
  /\ sequence = [a \in Accounts |-> 0]
  /\ call = [c \in Calls |-> [step |-> "idle", of |-> NoCall, polls |-> 0, answer |-> "none"]]
  /\ seqOf = [c \in Calls |-> 0]
  /\ fate = [c \in Calls |-> "kept"]

Before(op) == CASE op = "create_listing"    -> "none"
                [] op = "deposit_to_escrow" -> "open"
                [] OTHER                    -> "funded"

After(op) == CASE op = "create_listing"    -> "open"
               [] op = "deposit_to_escrow" -> "funded"
               [] op = "release_payment"   -> "released"
               [] op = "refund"            -> "refunded"

\* Whether the state of its trade lets the contract take e now.
Accepts(e) == contract[TradeOf[e]] = Before(OpOf[e])

-----------------------------------------------------------------------------
(* Errors.                                                                 *)

\* The contract's errors, by their codes.
ErrorRegistry ==
  <<"AlreadyInitialized", "Unauthorized", "TradeNotFound", "WrongStatus", "TradeExpired",
    "InsufficientFunds", "InvalidExpiry", "AlreadyDisputed", "ContractPaused",
    "TimelockNotExpired", "UnsupportedToken", "InvalidAmount", "FillAlreadyProcessed",
    "NotAParty", "PauseCooldownNotExpired", "DuplicateFill">>

\* The contract may have an error that the server does not know yet.
Codes == 1..Len(ErrorRegistry) + 1

\* The network, a timeout, a failure whose text has no code of the contract in it.
NoCode == 0

ParseContractError(code) ==
  IF code = NoCode THEN "none"
  ELSE IF code \in DOMAIN ErrorRegistry THEN ErrorRegistry[code] ELSE "ContractError"

-----------------------------------------------------------------------------
(* The calls.                                                              *)

Goto(c, step) == call' = [call EXCEPT ![c].step = step]

End(c, answer) == call' = [call EXCEPT ![c].step = "ended", ![c].answer = answer]

\* The call ends before there is a signed envelope.
Refuse(c, answer) == call' = [call EXCEPT ![c].step = "refused", ![c].answer = answer]

\* What isPermanentError makes of an error: a contract error is final, whatever else
\* happened may be tried again.
Told_AnyErrorIsFinal(code) == "rejected"

Told(code) == IF ParseContractError(code) = "none" THEN "unknown" ELSE "rejected"

\* What a caller may be told of a call that the contract did not take.
Failures == {Told(code) : code \in Codes \cup {NoCode}}

\* loadAccount and TransactionBuilder.build.
Build(c) ==
  /\ call[c].step = "idle"
  /\ seqOf' = [seqOf EXCEPT ![c] = sequence[AccountOf[c]] + 1]
  /\ call' = [call EXCEPT ![c].step = "built", ![c].of = c]
  /\ UNCHANGED <<contract, sequence, fate>>

\* prepareTransaction simulates the call; what the contract rejects there, for the state of
\* the trade or for a pause, an amount or a token, is never sent.
Prepare(c) ==
  /\ call[c].step = "built"
  /\ \/ Accepts(c) /\ Goto(c, "signed")
     \/ \E answer \in Failures : Refuse(c, answer)
  /\ UNCHANGED <<contract, sequence, seqOf, fate>>

\* POST buy once more with an envelope that the buyer's browser has signed.
Resend(c, d) ==
  /\ call[c].step = "idle"
  /\ OpOf[c] = "deposit_to_escrow"
  /\ AccountOf[d] = AccountOf[c]          \* expectedSourceAccount
  /\ call[d].of = d /\ call[d].step \in {"signed", "polling", "ended"}
  /\ call' = [call EXCEPT ![c].step = "signed", ![c].of = d]
  /\ UNCHANGED <<contract, sequence, seqOf, fate>>

\* The node can still take e.
Sendable(e) == fate[e] = "kept" /\ seqOf[e] > sequence[AccountOf[e]]

\* sendTransaction: PENDING, DUPLICATE or TRY_AGAIN_LATER, which the code does not tell
\* apart from the others; or ERROR, for what the ledger could not take.
SendTransaction(c) ==
  LET e == call[c].of
  IN  /\ call[c].step = "signed"
      /\ \/ Goto(c, "polling")
            /\ \/ Sendable(e) /\ fate' = [fate EXCEPT ![e] = "queued"]
               \/ UNCHANGED fate
         \/ ~Sendable(e) /\ End(c, Told(NoCode)) /\ UNCHANGED fate
      /\ UNCHANGED <<contract, sequence, seqOf>>

\* One turn of pollForResult.  The node may not know yet what has happened.
Poll(c) ==
  /\ call[c].step = "polling"
  /\ \/ fate[call[c].of] = "landed" /\ End(c, "success")
     \/ fate[call[c].of] = "failed" /\ \E answer \in Failures : End(c, answer)
     \/ call[c].polls < MaxPolls /\ call' = [call EXCEPT ![c].polls = @ + 1]
     \/ call[c].polls = MaxPolls /\ End(c, Told(NoCode))
  /\ UNCHANGED <<contract, sequence, seqOf, fate>>

\* A request to the node fails or the server restarts; the last thing sent may have
\* arrived.
Lose(c) ==
  /\ call[c].step \in {"signed", "polling"}
  /\ End(c, Told(NoCode))
  /\ \/ /\ call[c].step = "signed" /\ Sendable(call[c].of)
        /\ fate' = [fate EXCEPT ![call[c].of] = "queued"]
     \/ UNCHANGED fate
  /\ UNCHANGED <<contract, sequence, seqOf>>

-----------------------------------------------------------------------------
(* The ledger.                                                             *)

\* A ledger with e in it: its number is used whether the contract accepts it or not.
Include(e) ==
  LET a == AccountOf[e]
  IN  /\ fate[e] = "queued"
      /\ seqOf[e] = sequence[a] + 1
      /\ sequence' = [sequence EXCEPT ![a] = @ + 1]
      /\ \/ /\ Accepts(e)
            /\ fate' = [fate EXCEPT ![e] = "landed"]
            /\ contract' = [contract EXCEPT ![TradeOf[e]] = After(OpOf[e])]
         \/ /\ fate' = [fate EXCEPT ![e] = "failed"]
            /\ UNCHANGED contract
      /\ UNCHANGED <<call, seqOf>>

Expire(e) ==
  /\ fate[e] \in {"kept", "queued"}
  /\ call[e].of = e
  /\ fate' = [fate EXCEPT ![e] = "expired"]
  /\ UNCHANGED <<contract, sequence, call, seqOf>>

Next ==
  \E c \in Calls :
    \/ Build(c) \/ Prepare(c)
    \/ \E d \in Calls : Resend(c, d)
    \/ SendTransaction(c) \/ Poll(c) \/ Lose(c)
    \/ Include(c) \/ Expire(c)

Spec == Init /\ [][Next]_vars

-----------------------------------------------------------------------------
(* Properties.                                                             *)

\* Each call, envelope and account has the type it is declared with; polls are bounded.
TypeOK ==
  /\ contract \in [Trades -> {"none", "open", "funded", "released", "refunded"}]
  /\ sequence \in [Accounts -> Nat]
  /\ call \in [Calls -> [step : {"idle", "built", "signed", "polling", "ended", "refused"},
                         of : Calls \cup {NoCall}, polls : 0..MaxPolls,
                         answer : {"none", "success", "rejected", "unknown"}]]
  /\ seqOf \in [Calls -> Nat]
  /\ fate \in [Calls -> Fate]

\* stellar.ts, isPermanentError: whatever the node, the ledger and the other calls do, a
\* call that was told success has landed, and one told of a contract error never lands,
\* not even through another call with the same envelope.
Answers == INSTANCE ChainAnswers WITH
  of     <- [c \in Calls |-> call[c].of],
  landed <- {c \in Calls : fate[c] = "landed"},
  answer <- [c \in Calls |-> call[c].answer]

ImplementsAnswers == Answers!AnswerSpec

=============================================================================
