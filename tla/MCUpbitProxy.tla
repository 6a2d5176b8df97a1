---------------------------- MODULE MCUpbitProxy ----------------------------
(* UpbitProxy as TLC checks it: its constants are given in the cfg files. *)
EXTENDS UpbitProxy, TLC

\* Clients are interchangeable, and so are streams; used where no liveness is
\* checked.
Interchange == Permutations(Clients) \cup Permutations(Streams)

\* LatestArrives, of one client and one stream: they are all alike.
OneArrives == Arrives(CHOOSE c \in Clients : TRUE, CHOOSE k \in Streams : TRUE)
=============================================================================
