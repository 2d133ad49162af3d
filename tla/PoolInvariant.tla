--------------------------- MODULE PoolInvariant ---------------------------
(***************************************************************************)
(* The inductive invariant behind NoDanglingEntry, NoDoubleSpend and       *)
(* AppliedOnce.  Those properties speak of committed storage only; they    *)
(* hold because of what is true of every list of server actions in flight, *)
(* from the virtual state it is compiled against to the later state it is  *)
(* applied to.                                                             *)
(***************************************************************************)
EXTENDS PrivacyPool

(***************************************************************************)
(* What the address of an entry says about the entry, whoever wrote it: a  *)
(* marker carries the parties its channel key is the hash of, a nullifier  *)
(* the canonical private key of the note's recipient.                      *)
(***************************************************************************)
WellFormed(a) ==
    /\ MapOf(a) = "channel_exists" =>
           a = ChannelMarkerOf(a[2]) /\ is_canonical_key(SenderKeyOf(a[2]))
    /\ MapOf(a) = "subchannel_exists" => a = SubchannelMarkerOf(a[2], a[5])
    /\ MapOf(a) = "nullifiers" =>
           is_canonical_key(a[5]) /\ derive_public_key(a[5]) = RecipientPubOf(a[2])

AllWellFormed(addresses) == \A a \in addresses : WellFormed(a)

\* The addresses that actions write, and those they write before the i-th.
WrittenBefore(actions, i) ==
    {actions[j].address : j \in {k \in 1 .. Len(actions) : k < i /\ IsWriteOnce(actions[k])}}

WrittenBy(actions) == {w.address : w \in WritesIn(actions)}

\* Whatever an action's entry needs is in storage or written by an earlier action.
Justified(actions, addresses) ==
    \A i \in 1 .. Len(actions) :
        IsWriteOnce(actions[i]) =>
            Needs(actions[i].address) \subseteq addresses \cup WrittenBefore(actions, i)

NeedsMet(addresses) == \A a \in addresses : Needs(a) \subseteq addresses

-----------------------------------------------------------------------------
StorageInv ==
    /\ AllWellFormed(DOMAIN store)
    /\ NeedsMet(DOMAIN store)
    /\ DOMAIN closed.store \subseteq DOMAIN store
    /\ \A actions \in applied : WrittenBy(actions) \subseteq DOMAIN store

\* A compilation: its virtual state is the closed block and what it wrote.
SessionInv ==
    mode = "compile" =>
        /\ DOMAIN session.store = DOMAIN closed.store \cup WrittenBy(session.actions)
        /\ AllWellFormed(WrittenBy(session.actions))
        /\ Justified(session.actions, DOMAIN closed.store)
        /\ session.has_replay_protection => WrittenBy(session.actions) # {}

\* A proof in flight stays applicable: what it relies on never disappears.
ProofsInv ==
    \A p \in proofs :
        /\ WrittenBy(p.actions) # {}
        /\ AllWellFormed(WrittenBy(p.actions))
        /\ Justified(p.actions, DOMAIN store)

\* A transaction: its working copy is the committed state and what it wrote.
TxInv ==
    mode = "apply" =>
        /\ tx.proof \in proofs
        /\ DOMAIN tx.store = DOMAIN store \cup WrittenBefore(tx.proof.actions, tx.pc)
        /\ WrittenBefore(tx.proof.actions, tx.pc) \cap DOMAIN store = {}
        /\ NeedsMet(DOMAIN tx.store)
        /\ tx.depositor # ZeroAddr =>
               tx.pc \in 1 .. Len(tx.proof.actions) /\ ~IsWriteOnce(CurrentAction)

(***************************************************************************)
(* The inductive invariant.  Every entry in storage, in a compilation's    *)
(* virtual state and in a proof is well formed; everything a proof relies  *)
(* on is in storage already or written by the proof itself.                *)
(***************************************************************************)
PoolInv == StorageInv /\ SessionInv /\ ProofsInv /\ TxInv
=============================================================================
