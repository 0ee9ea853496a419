--------------------------- MODULE AtomicSessions ---------------------------
(***************************************************************************)
(* What the per-peer session locks promise (src/src/session_lock.rs): the  *)
(* load -> ratchet -> store cycle on a Double Ratchet session behaves as   *)
(* one atomic step, so no message key is ever derived twice.               *)
(*                                                                         *)
(* A session is abstracted to its current sending chain (a number that is  *)
(* never reused for the same device), the next index on that chain, the    *)
(* remote registration id it was built for, and whether libsignal would    *)
(* still encrypt with it (has_usable_sender_chain).                        *)
(***************************************************************************)
EXTENDS Naturals

CONSTANTS Peers,     \* the ServiceIds a session can be held with
          Devices,   \* the device ids of any peer
          Tokens     \* names of encryptions, to tell two of them apart

VARIABLES sessions,  \* sessions[p][d]: the stored record, or NoSession
          chains,    \* chains[p][d]: the sending chains ever started with p, d
          used       \* the message keys ciphertexts were produced with

absVars == <<sessions, chains, used>>

Session == [chain : Nat, snd : Nat, reg : Nat, usable : BOOLEAN]

\* The store's load_session answered None: chain 0 is no chain.
NoSession == [chain |-> 0, snd |-> 0, reg |-> 0, usable |-> FALSE]

MessageKey == [peer : Peers, dev : Devices, chain : Nat, idx : Nat, by : Tokens]

AbsTypeOK ==
    /\ sessions \in [Peers -> [Devices -> Session]]
    /\ chains \in [Peers -> [Devices -> Nat]]
    /\ used \subseteq MessageKey

AbsInit ==
    /\ sessions \in [Peers -> [Devices -> Session]]
    /\ chains \in [Peers -> [Devices -> Nat]]
    /\ \A p \in Peers, d \in Devices : sessions[p][d].chain <= chains[p][d]
    /\ used = {}

\* One encryption: the key at the head of the sending chain is consumed.
Encrypt(p, d, by) ==
    /\ sessions[p][d].chain # 0 /\ sessions[p][d].usable
    /\ used' = used \cup {[peer |-> p, dev |-> d, chain |-> sessions[p][d].chain,
                           idx |-> sessions[p][d].snd, by |-> by]}
    /\ sessions' = [sessions EXCEPT ![p][d].snd = @ + 1]
    /\ UNCHANGED chains

\* Any other work on a record keeps its sending chain where it was, deletes the
\* record, or starts a sending chain that was never used before.
KeepChain(p, d) ==
    /\ sessions'[p][d].chain = sessions[p][d].chain
    /\ sessions'[p][d].snd = sessions[p][d].snd
    /\ chains'[p][d] = chains[p][d]

Delete(p, d) ==
    /\ sessions'[p][d] = NoSession
    /\ chains'[p][d] = chains[p][d]

NewChain(p, d) ==
    /\ chains'[p][d] = chains[p][d] + 1
    /\ sessions'[p][d].chain = chains'[p][d]
    /\ sessions'[p][d].snd = 0

\* Session work that encrypts nothing, on the devices of one peer.
Rework(p) ==
    /\ sessions' \in [Peers -> [Devices -> Session]]
    /\ chains' \in [Peers -> [Devices -> Nat]]
    /\ \A q \in Peers \ {p} : sessions'[q] = sessions[q] /\ chains'[q] = chains[q]
    /\ \A d \in Devices : KeepChain(p, d) \/ Delete(p, d) \/ NewChain(p, d)
    /\ UNCHANGED used

AbsNext ==
    \/ \E p \in Peers, d \in Devices, by \in Tokens : Encrypt(p, d, by)
    \/ \E p \in Peers : Rework(p)

AbsSpec == AbsInit /\ [][AbsNext]_absVars

\* No two ciphertexts are ever produced with the same message key: what a lost
\* ratchet update (two tasks deriving from the same chain state) would break.
NoKeyReuse ==
    \A a, b \in used :
        /\ a.peer = b.peer
        /\ a.dev = b.dev
        /\ a.chain = b.chain
        /\ a.idx = b.idx
        => a = b
=============================================================================
