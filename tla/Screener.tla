------------------------------ MODULE Screener ------------------------------
(***************************************************************************)
(* What the screening service promises to the proof interceptor.  A call   *)
(* names an address and is answered once: with an error, with a block, or  *)
(* with an attestation of that very address, dated when it is given.  An   *)
(* address that every configuration denies is never attested.              *)
(*                                                                         *)
(* EllipticProxy implements this specification; ProofInterceptor uses it.  *)
(***************************************************************************)
EXTENDS Integers

CONSTANTS
    Call,           \* calls of POST /screen
    Address,        \* addresses as spelled in a request
    Felt,           \* the addresses they stand for
    Invalid,        \* what a spelling stands for that is no address
    feltOf,         \* [Address -> Felt \cup {Invalid}]
    Denied,         \* addresses denied by every configuration
    MaxTime         \* bound: ticks of the clock

ASSUME ScreenerAssumption ==
    /\ Invalid \notin Felt
    /\ feltOf \in [Address -> Felt \cup {Invalid}]
    /\ Denied \subseteq Felt
    /\ MaxTime \in Nat

VARIABLES
    now,        \* the clock
    screens     \* the calls

screenerVars == <<now, screens>>

None == -1

Answer ==
    [verdict : {"none", "error", "blocked"}] \cup
    [verdict : {"allowed"}, depositor : Felt, issued_at : 0 .. MaxTime]

NoAnswer == [verdict |-> "none"]
Error == [verdict |-> "error"]
Blocked == [verdict |-> "blocked"]
Allowed(depositor, issued_at) ==
    [verdict |-> "allowed", depositor |-> depositor, issued_at |-> issued_at]

NoScreen == [state |-> "free", address |-> CHOOSE a \in Address : TRUE,
             answer |-> NoAnswer]

ScreenerInit ==
    /\ now = 0
    /\ screens = [c \in Call |-> NoScreen]

OpenScreen(c, address) ==
    /\ screens[c].state = "free"
    /\ screens' = [screens EXCEPT ![c] =
                      [state |-> "open", address |-> address,
                       answer |-> NoAnswer]]

MayAnswer(c) ==
    {Error, Blocked} \cup
    (IF feltOf[screens[c].address] \in Felt \ Denied
     THEN {Allowed(feltOf[screens[c].address], now)} ELSE {})

AnswerScreen(c) ==
    /\ screens[c].state = "open"
    /\ \E answer \in MayAnswer(c) :
          screens' = [screens EXCEPT ![c].state = "answered", ![c].answer = answer]

Tick == now < MaxTime /\ now' = now + 1

Next ==
    \/ \E c \in Call, a \in Address : OpenScreen(c, a) /\ UNCHANGED now
    \/ \E c \in Call : AnswerScreen(c) /\ UNCHANGED now
    \/ Tick /\ UNCHANGED screens

Spec == ScreenerInit /\ [][Next]_screenerVars
=============================================================================
