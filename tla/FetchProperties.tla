-------------------------- MODULE FetchProperties --------------------------
(***************************************************************************)
(* What the fetch queue owes dispatch: the instructions of the program in  *)
(* order from the last redirect on, and always another one.                *)
(***************************************************************************)
EXTENDS Fetch

(* How many ways after the one to be read next a way is read.              *)
Turn(w) == (w + NUM_WAYS - rdWay) % NUM_WAYS

(* The queue holds the instructions from pc on, each once and in order     *)
(* over the sub-queues (rounds times round them and ahead more), and the   *)
(* next request continues them; an instruction requested before the last   *)
(* redirect is not among them.  And discard_req stands for exactly the     *)
(* responses that are older than the last redirect, however many redirects *)
(* there were since the request.                                           *)
FetchInOrder ==
  /\ \E rounds \in 0 .. ONE_WAY_DEPTH, ahead \in Ways :
       /\ \A w \in Ways :
            Len(ways[w]) = rounds + (IF Turn(w) < ahead THEN 1 ELSE 0)
       /\ wrWay = (rdWay + ahead) % NUM_WAYS
       /\ imemPc = After(pc, rounds * NUM_WAYS + ahead)
  /\ \A w \in Ways : \A i \in 1 .. Len(ways[w]) :
       ways[w][i] = After(pc, Turn(w) + (i - 1) * NUM_WAYS)
  /\ outstanding = (port.st # "IDLE")
  /\ discard = stale

-----------------------------------------------------------------------------
(* The cache accepts and answers, and dispatch does not stall for itself   *)
(* for ever.  Nothing makes redirects happen.                              *)
Accepts == \E hold, jr, done \in BOOLEAN : Cycle(hold, jr, TRUE, done, NoFetchAddr)
Answers == port.st = "BUSY" /\ \E hold, jr, ready \in BOOLEAN :
                                 Cycle(hold, jr, ready, TRUE, NoFetchAddr)
Unheld == \E jr, ready, done \in BOOLEAN : Cycle(FALSE, jr, ready, done, NoFetchAddr)
FairSpec ==
  Spec /\ WF_vars(Accepts) /\ WF_vars(Answers) /\ WF_vars(Unheld)

(* Once redirects stop and no indirect jump waits for one, dispatch reads  *)
(* instruction after instruction: queue and request never wait on each     *)
(* other, and no answer is waited for that was discarded.                  *)
Supplied == <>[](~Flush /\ ~jrStall) => []<><<pc' # pc>>_vars

=============================================================================
