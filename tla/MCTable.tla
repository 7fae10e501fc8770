------------------------------ MODULE MCTable -------------------------------
(***************************************************************************)
(* Small tables for TLC.  Column 1 is the key, column 2 a payload of one   *)
(* or two units; a page has room for two rows unless both have the long    *)
(* payload.                                                                *)
(***************************************************************************)
EXTENDS TableProperties

CONSTANTS Keys, Payloads

TwoColumns == {1, 2}
OneIndex == {1}

Widths == <<[v \in Keys \cup {Null} |-> 0],
            [v \in Payloads \cup {Null} |-> IF v = Null THEN 0 ELSE v]>>

ShortRows == {<<k, 1>> : k \in Keys}

ByKey == {Comparison(1, "=", k) : k \in Keys}
KeyAndNotShort == Logical("AND", Comparison(1, "=", 0), Not(Comparison(2, "=", 1)))
SomeDeletes ==
  {All, Comparison(2, "=", 1), Comparison(2, ">", 1), Comparison(1, "=", Null),
   KeyAndNotShort} \cup ByKey

(* The theorems' hypothesis about rows.                                     *)
ASSUME RowsFit

Operands == Keys \cup Payloads \cup {Null}
SomeNodes ==
  {Comparison(c, op, v) : c \in TwoColumns, v \in Operands,
                          op \in {"=", "!=", "<", ">", "<=", ">="}}
  \cup {Between(c, lo, hi) : c \in TwoColumns, lo, hi \in Operands}
  \cup {All, Not(Comparison(2, "=", 1)), KeyAndNotShort}

SetPayload == {<<cond, << <<2, v>> >> >> : cond \in ByKey, v \in Payloads}
SetKey == {<<cond, << <<1, k>> >> >> : cond \in ByKey, k \in Keys \cup {Null}}
SetBoth == {<<cond, << <<2, 2>>, <<1, k>> >> >> : cond \in ByKey, k \in Keys}
Lengthen == <<Comparison(2, "=", 1), << <<2, 2>> >> >>
SetByScan == {Lengthen,
              <<Comparison(2, "=", 2), << <<2, 1>> >> >>,
              <<Comparison(2, "=", 1), << <<1, 0>> >> >>}
SomeUpdates ==
  SetPayload \cup SetKey \cup SetBoth \cup SetByScan \cup {<<All, << <<2, 1>> >> >>}
FewUpdates ==
  {Lengthen, <<Comparison(1, "=", 0), << <<1, 1>> >> >>}
  \cup {<<cond, << <<2, 2>> >> >> : cond \in ByKey}

Forever == 99
NoStops == {Forever}
SomeStops == {1, 2, 3, Forever}

NoEvents == {}
CutDeletes == {"delete"}
=============================================================================
