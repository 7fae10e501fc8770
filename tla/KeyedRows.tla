----------------------------- MODULE KeyedRows ------------------------------
(***************************************************************************)
(* What a table promises as long as nothing has gone wrong in it: a bag of *)
(* rows, distinct in every indexed column, and for each statement its      *)
(* exact effect or the reason why it is refused.  A statement that goes    *)
(* wrong may leave anything of the rows it was about, and nothing is       *)
(* promised from then on; the rows it was not about stay.                  *)
(***************************************************************************)
EXTENDS Conditions, Bags

CONSTANTS
  Indexed, NotNull, Inserts, Deletes, Updates

VARIABLES
  rows,
  sound,  \* nothing has gone wrong yet
  last    \* the last statement, how it ended, and whether the page count it
          \* went by was outdated

vars == <<rows, sound, last>>

(* A null value has the key of a zero-initialised one.                      *)
Key(v) == IF v = Null THEN 0 ELSE v

(* No two rows agree in an indexed column, unless they are null there.      *)
Distinct(bag) ==
  \A c \in Indexed, r, s \in DOMAIN bag :
    r[c] = s[c] /\ r[c] # Null => r = s /\ bag[r] = 1

(* UPDATE and DELETE by an indexed key look up that key, which for null is  *)
(* that of zero, and do not evaluate the condition.                         *)
Equality(cond) == cond.kind = "comparison" /\ cond.op = "="
OnIndex(cond) == Equality(cond) /\ cond.column \in Indexed
Hit(r, cond) ==
  IF OnIndex(cond) THEN r[cond.column] = Key(cond.value) ELSE Matches(r, cond)
HitRows(cond) == [r \in {s \in DOMAIN rows : Hit(s, cond)} |-> rows[r]]
Others(cond) == rows (-) HitRows(cond)

Image(r, set) ==
  [c \in DOMAIN r |->
     LET assigned == {i \in DOMAIN set : set[i][1] = c}
     IN  IF assigned = {} THEN r[c]
         ELSE set[CHOOSE i \in assigned : \A j \in assigned : j <= i][2]]

Ends(statement, out) == last'.statement = statement /\ last'.out = out

(* The statement's process did not know the pages that others had added.    *)
Outdated == last'.outdated

-----------------------------------------------------------------------------
Admissible(r) ==
  /\ \A c \in NotNull : r[c] # Null
  /\ \A c \in Indexed, s \in DOMAIN rows : s[c] # Key(r[c])

Insert(r) ==
  \/ /\ Admissible(r) /\ Ends(<<"insert", r>>, "ok")
     /\ rows' = rows (+) SetToBag({r})
  \/ ~Admissible(r) /\ Ends(<<"insert", r>>, "error") /\ rows' = rows

(* Only a condition that compares for equality updates anything; what is    *)
(* refused is the change of a key from null.  With an outdated page count   *)
(* rows may be missed.                                                      *)
Update(cond, set) ==
  \/ /\ Ends(<<"update", cond, set>>, "ok")
     /\ rows' = IF ~Equality(cond) THEN rows
                ELSE Others(cond)
                       (+) BagOfAll(LAMBDA r : Image(r, set), HitRows(cond))
     /\ Distinct(rows')
  \/ /\ Outdated /\ Equality(cond) /\ Ends(<<"update", cond, set>>, "ok")
     /\ \E found \in SubBag(HitRows(cond)) :
          rows' = (rows (-) found) (+) BagOfAll(LAMBDA r : Image(r, set), found)
     /\ Distinct(rows')
  \/ /\ Ends(<<"update", cond, set>>, "error")
     /\ \E r \in DOMAIN HitRows(cond), i \in DOMAIN set :
          set[i][1] \in Indexed /\ r[set[i][1]] = Null
     /\ rows' = rows

(* What is refused is equality on a column without an index.  With an       *)
(* outdated page count a scan may miss rows.                                *)
Delete(cond) ==
  \/ /\ OnIndex(cond) \/ ~Equality(cond)
     /\ Ends(<<"delete", cond>>, "ok") /\ rows' = Others(cond)
  \/ /\ Outdated /\ ~Equality(cond) /\ Ends(<<"delete", cond>>, "ok")
     /\ Others(cond) \sqsubseteq rows' /\ rows' \sqsubseteq rows
  \/ /\ Equality(cond) /\ ~OnIndex(cond)
     /\ Ends(<<"delete", cond>>, "error") /\ rows' = rows

(* The execution was stopped, or came upon a page that its count excludes.  *)
Stopped ==
  /\ last'.out = "stopped" \/ (Outdated /\ last'.out = "io error")
  /\ rows' = rows

Works ==
  /\ sound /\ sound'
  /\ \/ \E r \in Inserts : Insert(r)
     \/ \E u \in Updates : Update(u[1], u[2])
     \/ \E cond \in Deletes : Delete(cond)
     \/ Stopped

-----------------------------------------------------------------------------
(* Only with an outdated page count are rows lost that the statement is not *)
(* about, by an insertion or by an update that moves a row.                 *)
InsertBreaks(r) ==
  /\ last'.statement = <<"insert", r>>
  /\ \/ rows' \in {rows, rows (+) SetToBag({r})}
     \/ /\ Outdated /\ BagIn(r, rows')
        /\ rows' \sqsubseteq rows (+) SetToBag({r})

UpdateBreaks(cond, set) ==
  /\ last'.statement = <<"update", cond, set>>
  /\ Outdated \/ Others(cond) \sqsubseteq rows'
  /\ \A r \in DOMAIN rows' \ DOMAIN rows :
       \E s \in DOMAIN HitRows(cond) : r = Image(s, set)

DeleteBreaks(cond) ==
  /\ last'.statement = <<"delete", cond>>
  /\ Others(cond) \sqsubseteq rows' /\ rows' \sqsubseteq rows

Breaks ==
  /\ sound /\ ~sound'
  /\ \/ \E r \in Inserts : InsertBreaks(r)
     \/ \E u \in Updates : UpdateBreaks(u[1], u[2])
     \/ \E cond \in Deletes : DeleteBreaks(cond)

Drop == rows' = EmptyBag /\ sound' /\ UNCHANGED last

Broken == ~sound /\ ~sound'

Init == rows = EmptyBag /\ sound = TRUE /\ last.statement = <<>>

Next == Works \/ Breaks \/ Drop \/ Broken

Spec == Init /\ [][Next]_vars
=============================================================================
