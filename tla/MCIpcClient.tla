----------------------------- MODULE MCIpcClient -----------------------------
(* Bytes of two bits, two of them in a header; texts of one or two bytes.     *)
EXTENDS IpcClient

MCMessages == (UNION {ResponsesTo(r) : r \in Requests}) \union Unasked

\* The messages are numbered, and the text of a message is its number.
MCText ==
  LET order == SetToSeq(Calls) \o [s \in Sockets |-> s]
      Place(r) == CHOOSE i \in DOMAIN order : order[i] = r
      Kind(is) == CASE is = "success" -> 2 [] is = "error" -> 1 [] OTHER -> 0
      Number(m) == IF m = Discovery THEN 0 ELSE IF m = Null THEN 3 * Len(order) + 1
                   ELSE 3 * Place(m.to) - Kind(m.is)
      Digits(n) == IF n < Base THEN <<n>> ELSE <<n \div Base, n % Base>>
  IN [m \in MCMessages |-> Digits(Number(m))]
=============================================================================
