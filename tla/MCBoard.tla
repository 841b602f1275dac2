------------------------------ MODULE MCBoard -------------------------------
(***************************************************************************)
(* The board with two clients, bodies of two chunks and two speeds.  In    *)
(* one behaviour the settings are changed and saved, or firmware is        *)
(* uploaded, or a module is fitted, during at most one upload.             *)
(***************************************************************************)
EXTENDS Board

With(parts) == [part \in Part |-> part \in parts]
Plain == With({})
Seeded == With({"passphrase"})
AllSettings == {Plain, Seeded, With({"radio"}), With({"wifi"})}

Speeds2 == <<115, 9>>

MCInit ==
    /\ Init /\ live \in {Plain, Absent, Unreadable}
    /\ \/ requests = MaxRequests /\ uploads = 0 /\ ~Fitted
       \/ sound /\ live = Plain /\ requests = 1 /\ uploads = MaxUploads /\ ~Fitted
       \/ sound /\ live = Plain /\ requests = 0 /\ uploads = 1 /\ Fitted
MCSpec == MCInit /\ [][Next]_vars /\ Fairness

\* Settings that were saved before, in a flash that never fails: only the power does.
SoundInit == MCInit /\ sound /\ live = Plain /\ requests = MaxRequests /\ uploads = 0
SoundSpec == SoundInit /\ [][Next]_vars /\ Fairness
=============================================================================
