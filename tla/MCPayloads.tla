------------------------------ MODULE MCPayloads ------------------------------
(* Bounds for model-checking Payloads: see the README for each run. *)
EXTENDS Payloads, SequencesExt

(* Two plain characters would behave alike; the wide one is a letter with   *)
(* an accent.                                                               *)
Widths == [c \in {"@", ".", "a", "e'"} |-> IF c = "e'" THEN 2 ELSE 1]

Blank == [task |-> "send_email", decodes |-> TRUE, to |-> <<>>, subject |-> <<>>,
          body |-> <<>>, report_id |-> <<>>, order_number |-> <<>>, quantity |-> 0]
Mail == [Blank EXCEPT !.to = <<"a", "@", "a", ".", "a">>, !.subject = <<"a">>, !.body = <<"a">>]

(* Every address of up to six characters, so that both limits and every     *)
(* place of the @ come up.                                                  *)
Addresses == {[Mail EXCEPT !.to = t] : t \in SeqOf(DOMAIN Widths, 6)}

Letters == {[Mail EXCEPT !.subject = s, !.body = b] :
              s \in SeqOf({"a", "e'"}, 3), b \in SeqOf({"a", "e'"}, 4)}

Others ==
  {[Blank EXCEPT !.task = k, !.decodes = d, !.report_id = id, !.order_number = id,
                 !.quantity = n] :
     k \in {"generate_report", "process_order", "other"}, d \in BOOLEAN,
     id \in SeqOf({"a"}, 1), n \in -1..2}

AllPayloads == Addresses \cup Letters \cup Others \cup {[Mail EXCEPT !.decodes = FALSE]}
=============================================================================
