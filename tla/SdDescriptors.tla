----------------------------- MODULE SdDescriptors -----------------------------
(***************************************************************************)
(* The tables a DMA transfer of an SD request is described by: the ADMA2   *)
(* descriptors of dwcsdhc (SdhcCreateAdmaDescriptorTable) and the IDMAC    *)
(* descriptors of dwcmshc (MshcCreateIdmacDescriptorTable).  Both cut each *)
(* element of the scatter-gather list into pieces of at most MaxLength.    *)
(***************************************************************************)
EXTENDS Integers, Sequences

CONSTANTS Lists,       \* the scatter-gather lists: [address, length] records
          MaxLength    \* .._MAX_LENGTH_PER_ENTRY

ASSUME ListsAssumption ==
  /\ MaxLength \in Nat \ {0}
  /\ Lists \subseteq Seq([address : Nat, length : Nat \ {0}]) /\ <<>> \notin Lists

VARIABLES
  engine,    \* whose table is built, "off" before
  list,      \* the request's list
  element,   \* the element the loop is at; beyond the last once it is over
  address, remaining,   \* NextAddress, RemainingLength
  table      \* the descriptors written

descVars == <<engine, list, element, address, remaining, table>>

DescriptorsInit ==
  /\ engine = "off" /\ list = <<>> /\ element = 0
  /\ address = 0 /\ remaining = 0 /\ table = <<>>

BuildTable ==
  /\ engine = "off"
  /\ engine' \in {"adma2", "idmac"} /\ list' \in Lists
  /\ element' = 1 /\ address' = list'[1].address /\ remaining' = list'[1].length
  /\ table' = <<>>

Piece == IF remaining > MaxLength THEN MaxLength ELSE remaining

\* OWN and DIC, or VALID and TRAN.
Descriptor ==
  [address |-> address, length |-> Piece, first |-> FALSE, last |-> FALSE]

AddDescriptor ==
  /\ engine # "off" /\ remaining > 0
  /\ table' = Append(table, Descriptor)
  /\ address' = address + Piece /\ remaining' = remaining - Piece
  /\ UNCHANGED <<engine, list, element>>

Marked(t, i, field) == [t EXCEPT ![i][field] = TRUE]

\* ADMA2 sets END when no element is left after this one; IDMAC sets FS in the
\* first descriptor, and ER and LD in the last, after the loop.
Ended_Each(t) == Marked(t, Len(t), "last")    \* slip: after each element
Ended(t) ==
  IF element < Len(list) THEN t
  ELSE IF engine = "adma2" THEN Marked(t, Len(t), "last")
  ELSE Marked(Marked(t, Len(t), "last"), 1, "first")

NextElement ==
  /\ engine # "off" /\ element \in DOMAIN list /\ remaining = 0
  /\ table' = Ended(table)
  /\ element' = element + 1
  /\ IF element < Len(list)
     THEN address' = list[element + 1].address /\ remaining' = list[element + 1].length
     ELSE UNCHANGED <<address, remaining>>
  /\ UNCHANGED <<engine, list>>

DescriptorsNext == BuildTable \/ AddDescriptor \/ NextElement

DescriptorsSpec == DescriptorsInit /\ [][DescriptorsNext]_descVars

-----------------------------------------------------------------------------
\* The addresses a list or a table moves, in order.
Stretch(a, n) == [k \in 1 .. n |-> a + k - 1]

UpTo(s) ==
  LET upTo[i \in 0 .. Len(s)] ==
        IF i = 0 THEN <<>> ELSE upTo[i - 1] \o Stretch(s[i].address, s[i].length)
  IN upTo

Addresses(s) == UpTo(s)[Len(s)]

(* The controller moves what the list says and in its order: it follows the
   table up to the first descriptor marked as the last, none of which is longer
   than its length field can say, and IDMAC finds the first one marked. *)
DescriptorsCover ==
  engine # "off" /\ element > Len(list) =>
    /\ Addresses(table) = Addresses(list)
    /\ \A i \in DOMAIN table : /\ table[i].length <= MaxLength
                               /\ table[i].last = (i = Len(table))
                               /\ table[i].first = (engine = "idmac" /\ i = 1)
===============================================================================
