-------------------------------- MODULE MCTcp --------------------------------
(***************************************************************************)
(* Small instances of TcpConnection.                                       *)
(***************************************************************************)
EXTENDS TcpConnection

\* The numbers of the two hosts, and of the server's blocks, are apart.
MCFirstSeq == [e \in Hosts |-> IF e = Client THEN 10 ELSE 40]
\* The client sends one segment or two, of which the shadow stream takes the second in
\* part; the server sends one byte.
MCMaxBytes == [e \in Hosts |-> IF e = Client THEN 4 ELSE 1]
MCSizes == [e \in Hosts |-> IF e = Client THEN {2} ELSE {1}]

\* The hypothesis of the theorems about a connection.
ASSUME MCNoWrap == NoWrap
=============================================================================
