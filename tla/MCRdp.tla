------------------------------- MODULE MCRdp -------------------------------
(* Instances of Rdp for TLC.  The client's first numbers straddle the wrap  *)
(* of the 16-bit sequence space.                                            *)
EXTENDS Rdp, TLC

MCIss == [e \in Ends |-> IF e = "client" THEN <<65533, 300>> ELSE <<100, 200>>]
OneTryIss == [e \in Ends |-> IF e = "client" THEN <<65534>> ELSE <<100>>]

SendOne == [e \in Ends |-> IF e = "client" THEN 1 ELSE 0]
SendTwo == [e \in Ends |-> IF e = "client" THEN 2 ELSE 0]
SendThree == [e \in Ends |-> IF e = "client" THEN 3 ELSE 0]
SendFour == [e \in Ends |-> IF e = "client" THEN 4 ELSE 0]

(* The state once the SYN/ACK has arrived and csp_connect has returned: the *)
(* server still waits in SYN_RCVD for the client's first segment.           *)
AfterHandshake ==
  LET c == Iss["client"][1]  s == Iss["server"][1] IN
  /\ ep = [e \in Ends |->
       IF e = "client"
       THEN [Free EXCEPT !.conn = TRUE, !.rdp = "OPEN", !.iss = c, !.nxt = Wrap16(c + 1),
                         !.una = Wrap16(c + 1), !.irs = s, !.cur = s, !.lsa = Wrap16(s - 1),
                         !.tries = 1]
       ELSE [Free EXCEPT !.conn = TRUE, !.rdp = "SYN_RCVD", !.sock = TRUE, !.iss = s,
                         !.nxt = Wrap16(s + 1), !.una = s, !.irs = c, !.cur = c, !.lsa = c,
                         !.tx = {Syn(s)}, !.tries = 1]]
  /\ user = [e \in Ends |-> IF e = "client" THEN "open" ELSE "none"]
  /\ net = [e \in Ends |-> {}]
  /\ sent = [e \in Ends |-> 0]
  /\ rcvd = [e \in Ends |-> <<>>]

TransferSpec == AfterHandshake /\ [][Next]_vars
FairTransferSpec == TransferSpec /\ Fairness
=============================================================================
