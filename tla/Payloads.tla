------------------------------- MODULE Payloads -------------------------------
(***************************************************************************)
(* Task payloads, internal/tasks/types.go: the producer validates them     *)
(* before it enqueues, and each handler decodes and validates them again.  *)
(*                                                                         *)
(* A text is a sequence of characters.  Go measures and indexes it in      *)
(* bytes, so a character has a width, its length in UTF-8.                 *)
(***************************************************************************)
EXTENDS Integers, Sequences

CONSTANTS
  Width,       \* character -> its bytes
  At, Dot,     \* the characters @ and .
  MinEmail, MaxEmail, MaxSubject, MaxBody,  \* 5, 320, 200 and 10000
  Payloads     \* what clients send

ASSUME PayloadAssumption ==
  /\ {At, Dot} \subseteq DOMAIN Width /\ At # Dot
  /\ Width[At] = 1 /\ Width[Dot] = 1
  /\ \A c \in DOMAIN Width : Width[c] \in 1..4
  /\ \A p \in Payloads :
       /\ p.decodes \in BOOLEAN
       /\ p.task = "send_email" /\ p.decodes => p.to \in Seq(DOMAIN Width)

VARIABLES
  payload,  \* the payload on its way, a member of Payloads
  stage     \* "sent", "refused", "queued", "rejected", "running"

vars == <<payload, stage>>

-----------------------------------------------------------------------------
(* How many bytes the first n characters of a text are, for every n: where  *)
(* the character after them begins.                                         *)
Begins(text) ==
  LET begins[n \in 0..Len(text)] ==
        IF n = 0 THEN 0 ELSE begins[n - 1] + Width[text[n]]
  IN  begins

Bytes(text) == Begins(text)[Len(text)]

(* What follows byte number n of the text. *)
After(text, n) == {i \in DOMAIN text : Begins(text)[i - 1] > n}

(* The scan of an address: how far it got, the byte of the first @ or -1,   *)
(* and whether it gave up at a second one.                                  *)
ScanStart == [byte |-> 0, at |-> -1, twice |-> FALSE]

Scan(st, c) ==
  [byte  |-> st.byte + Width[c],
   at    |-> IF c = At /\ st.at = -1 THEN st.byte ELSE st.at,
   twice |-> st.twice \/ (c = At /\ st.at # -1)]

(* The scan after n characters, for every n. *)
Scans(text) ==
  LET scan[n \in 0..Len(text)] ==
        IF n = 0 THEN ScanStart ELSE Scan(scan[n - 1], text[n])
  IN  scan

(* Mutant: an address may begin with its @. *)
isValidEmailFromStart(email) ==
  LET scan == Scans(email)[Len(email)]
  IN  /\ Bytes(email) \in MinEmail..MaxEmail
      /\ ~scan.twice
      /\ scan.at \in 0..(Bytes(email) - 2)
      /\ \E i \in After(email, scan.at) : email[i] = Dot

isValidEmail(email) ==
  LET scan == Scans(email)[Len(email)]
  IN  /\ Bytes(email) \in MinEmail..MaxEmail
      /\ ~scan.twice
      /\ scan.at \in 1..(Bytes(email) - 2)
      /\ \E i \in After(email, scan.at) : email[i] = Dot

ValidEmail(p) ==
  /\ <<>> \notin {p.to, p.subject, p.body}
  /\ Bytes(p.subject) <= MaxSubject
  /\ Bytes(p.body) <= MaxBody
  /\ isValidEmail(p.to)

ValidReport(p) == p.report_id # <<>>

ValidOrder(p) == p.order_number # <<>> /\ p.quantity >= 1

(* Mutant: the switch has no case for orders. *)
ValidateTaskPayloadKnowsNoOrders(p) ==
  /\ p.decodes
  /\ \/ p.task = "send_email" /\ ValidEmail(p)
     \/ p.task = "generate_report" /\ ValidReport(p)

(* The switch on the task type; any other type is refused. *)
ValidateTaskPayload(p) ==
  /\ p.decodes
  /\ \/ p.task = "send_email" /\ ValidEmail(p)
     \/ p.task = "generate_report" /\ ValidReport(p)
     \/ p.task = "process_order" /\ ValidOrder(p)

(* The checks that open ProcessTask of the handler the task is routed to. *)
ProcessTask(p) ==
  CASE p.task = "send_email" -> p.decodes /\ ValidEmail(p)
    [] p.task = "generate_report" -> p.decodes /\ ValidReport(p)
    [] p.task = "process_order" -> p.decodes /\ ValidOrder(p)

-----------------------------------------------------------------------------
Init == payload \in Payloads /\ stage = "sent"

Enqueue ==
  /\ stage = "sent"
  /\ stage' = IF ValidateTaskPayload(payload) THEN "queued" ELSE "refused"
  /\ UNCHANGED payload

Process ==
  /\ stage = "queued"
  /\ stage' = IF ProcessTask(payload) THEN "running" ELSE "rejected"
  /\ UNCHANGED payload

Next == Enqueue \/ Process

Spec == Init /\ [][Next]_vars

-----------------------------------------------------------------------------
IsEmail(p) == p.task = "send_email" /\ p.decodes

(* What an address is: one @ with something before it, and after it a       *)
(* domain with a dot, the whole within the limits.                          *)
Address(text) ==
  /\ Bytes(text) \in MinEmail..MaxEmail
  /\ \E i \in 2..(Len(text) - 1) :
       /\ {j \in DOMAIN text : text[j] = At} = {i}
       /\ \E j \in (i + 1)..Len(text) : text[j] = Dot

(* The scan by bytes, with its early ends, finds exactly the addresses,     *)
(* also if characters of several bytes stand before or after the @.         *)
AddressesFound ==
  stage # "sent" /\ IsEmail(payload) =>
    (isValidEmail(payload.to) <=> Address(payload.to))

(* Producer and worker agree: an order or a report that is well-formed is   *)
(* let in, and nothing that was let in is rejected by its handler.          *)
BothSidesAgree ==
  /\ stage # "rejected"
  /\ stage = "refused" => payload.task \notin {"send_email", "generate_report", "process_order"}
                          \/ ~ProcessTask(payload)

=============================================================================
