-------------------------------- MODULE MCNode --------------------------------
(* Instances of the components around the consensus: mempool, ingress lanes,   *)
(* block execution, the tree of outputs, the light wallet and the start of a   *)
(* node.  They do not interact in these instances, so each behaviour follows   *)
(* one of them and the others keep their initial state.                        *)
EXTENDS Mempool, IngressLanes, UtxoTree, LightWallet, TimedRelease, NodeRestart

VARIABLE part         \* the component the behaviour follows

\* Two spend one output, the third also frees the fourth's; sizes and fees tie.
PoolTx(id, inputs, fee, size, verify, delta, v2, epoch, stamp) ==
    [id |-> id, inputs |-> inputs, fee |-> fee, size |-> size, verify |-> verify, delta |-> delta, v2 |-> v2,
     epoch |-> epoch, stamp |-> stamp]
MCTxs == {PoolTx(1, {11}, 4, 2, 0, 0, FALSE, 0, 1), PoolTx(2, {12}, 4, 1, 0, 0, FALSE, 1, 0),
          PoolTx(3, {11, 13}, 6, 1, 1, 2, TRUE, 0, 0), PoolTx(4, {3}, 7, 2, 1, -2, TRUE, 0, 0),
          PoolTx(5, {14}, 6, 2, 0, 0, FALSE, 0, 0), PoolTx(6, {12, 14}, 9, 3, 0, 0, FALSE, 0, 0),
          PoolTx(7, {15}, 8, 1, 1, -1, TRUE, 0, 0)}

\* The two nodes certify in epochs next to one whose certifier is another member, which may be
\* faulty or silent.
MCCertifiers == {<<0, 1, 2>>, <<1, 0, 2>>}

\* Keys that part at the first, the second and the last bit.
MCTreeKeys == {<<0, 0, 0>>, <<0, 0, 1>>, <<0, 1, 1>>, <<1, 0, 1>>}

\* Two validators sign anything; they are in both committees and no quorum of either.
MCCommitteeOf == (1 :> {1, 2, 3, 4}) @@ (3 :> {3, 4, 5})

\* A short lock whose inputs a record can race, a long one that leaves the pool it fills,
\* one that opens to garbage and one that only reveals a message.
MCStartFunds == (<<"e", 0>> :> 5) @@ (<<"f", 0>> :> 6) @@ (<<"g", 0>> :> 5) @@ (<<"h", 0>> :> 4) @@ (<<"p", 0>> :> 2)
Move(id, coin, paid, delta) == [id |-> id, inputs |-> {coin}, pay |-> paid, delta |-> delta]
Sealed(id, from, unlock, epoch, prepaid, bond, kind, tx) ==
    [id |-> id, coin |-> <<from, 0>>, unlock |-> unlock, epoch |-> epoch, prepaid |-> prepaid, bond |-> bond,
     body |-> [kind |-> kind, tx |-> tx]]
MCTransfers == {Move("x", <<"p", 0>>, 1, 0), Move("u", <<"t", 0>>, 2, -1)}
Enter == Move("t", <<"p", 0>>, 1, 1)
MCEnvelopes == {Sealed("a", "e", 2, 1, 1, 2, "transfer", Enter),
                Sealed("b", "f", 5, 1, 3, 3, "transfer", Move("o", <<"t", 0>>, 2, -1)),
                Sealed("c", "g", 3, 1, 2, 3, "garbage", Enter), Sealed("d", "h", 5, 3, 2, 2, "reveal", Enter)}
MCKeysRoot == [e \in {1, 3, 5, 7} |-> IF e >= 5 THEN 2 ELSE 1]

\* The others start in one of their initial states only.
NodeInit ==
    /\ part \in {"mempool", "ingress", "tree", "wallet", "execution", "restart"}
    /\ MpInit /\ InInit /\ UtInit /\ LwInit /\ ExInit /\ RsInit
    /\ part = "ingress" \/ certifier = CHOOSE c \in Certifiers : TRUE

lateVars == <<utVars, lwVars, exVars, part>>
earlyVars == <<mpVars, inVars, rsVars, part>>

NodeNext ==
    \/ part = "mempool" /\ MpNext /\ UNCHANGED <<inVars, rsVars, lateVars>>
    \/ part = "ingress" /\ InNext /\ UNCHANGED <<mpVars, rsVars, lateVars>>
    \/ part = "tree" /\ UtNext /\ UNCHANGED <<lwVars, exVars, earlyVars>>
    \/ part = "wallet" /\ LwNext /\ UNCHANGED <<utVars, exVars, earlyVars>>
    \/ part = "restart" /\ RsNext /\ UNCHANGED <<mpVars, inVars, lateVars>>
    \/ part = "execution" /\ ExNext /\ UNCHANGED <<utVars, lwVars, earlyVars>>

NodeSpec == NodeInit /\ [][NodeNext]_<<earlyVars, lateVars>>

\* For the behaviours that follow the tree: the root the node keeps is that of the full tree
\* over its outputs (TreeIsReference), and the light server proves every output at its tip, and
\* nothing else (ProofsServed).
TipIsProvable == part = "tree" => TreeIsReference /\ ProofsServed
================================================================================
