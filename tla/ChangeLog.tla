------------------------------ MODULE ChangeLog ------------------------------
(***************************************************************************)
(* The change log of an account (store/src/write/log.rs, query/log.rs).    *)
(*                                                                         *)
(* Every commit of a collection takes the account's next change id and     *)
(* writes, under that id, what it inserted, updated and deleted.  The log  *)
(* here is a sequence: position i holds the entry of change id i, `Gone`   *)
(* once it was deleted, or `Truncated`, the empty value that marks where   *)
(* the log was cut.  Reading a range folds its entries into one list of    *)
(* net changes; caches, JMAP /changes, IMAP and DAV all consume that list. *)
(*                                                                         *)
(* A change is [op, id]; an id is [kind, doc, thread]: mailboxes are       *)
(* "container"s, messages "item"s that carry the thread as prefix.         *)
(***************************************************************************)
EXTENDS Naturals, Sequences, SequencesExt, FiniteSetsExt

Gone == <<[op |-> "gone"]>>
Truncated == <<>>

-----------------------------------------------------------------------------
(* Writing: ChangeLogBuilder collects a batch in sets.                     *)

NoChanges == [ins |-> {}, upd |-> {}, prop |-> {}, del |-> {}]

(* An insertion of what this batch deleted is an update.                   *)
LogInsert(c, id) ==
    IF id \in c.del THEN [c EXCEPT !.del = @ \ {id}, !.upd = @ \cup {id}]
    ELSE [c EXCEPT !.ins = @ \cup {id}]

LogUpdate(c, id) == [c EXCEPT !.upd = @ \cup {id}]

LogProperty(c, ids) == [c EXCEPT !.prop = @ \cup ids]

LogDelete(c, id) ==
    [c EXCEPT !.upd = @ \ {id}, !.prop = @ \ {id}, !.del = @ \cup {id}]

(* The serialised entry: containers before items, then by operation.       *)
Serialize(c) ==
    LET Part(op, kind) ==
            LET ids == SetToSeq({id \in c[op] : id.kind = kind})
            IN  [i \in DOMAIN ids |-> [op |-> op, id |-> ids[i]]]
        Kind(kind) == Part("ins", kind) \o Part("upd", kind)
                          \o Part("prop", kind) \o Part("del", kind)
    IN  Kind("container") \o Kind("item")

-----------------------------------------------------------------------------
(* Reading: Changes::deserialize adds one change to the net list.          *)

(* The first position of `list` that does one of `ops` to id, or 0.        *)
FirstOf(list, ops, id) ==
    LET at == {i \in DOMAIN list : list[i].op \in ops /\ list[i].id = id}
    IN  IF at = {} THEN 0 ELSE Min(at)

AddInsert(list, c) == Append(list, c)

(* An update of what the range inserted says nothing new; a second update  *)
(* moves to the end, and a property change does not weaken an update.      *)
AddUpdate(list, c) ==
    LET i == FirstOf(list, {"ins", "upd", "prop"}, c.id)
    IN  IF i = 0 THEN Append(list, c)
        ELSE IF list[i].op = "ins" THEN list
        ELSE Append(RemoveAt(list, i),
                    IF list[i].op = "upd" THEN [c EXCEPT !.op = "upd"] ELSE c)

(* Mutant: a deletion cancels an update as if it were an insertion.        *)
AddDelete_Cancel(list, c) ==
    LET i == FirstOf(list, {"ins", "upd"}, c.id)
    IN  IF i = 0 THEN Append(list, c) ELSE RemoveAt(list, i)

(* A deletion cancels an insertion of the range altogether.                *)
AddDelete(list, c) ==
    LET i == FirstOf(list, {"ins", "upd"}, c.id)
    IN  IF i = 0 THEN Append(list, c)
        ELSE IF list[i].op = "ins" THEN RemoveAt(list, i)
        ELSE Append(RemoveAt(list, i), c)

Deserialize(list, entry) ==
    LET Add(l, c) == CASE c.op = "ins" -> AddInsert(l, c)
                       [] c.op \in {"upd", "prop"} -> AddUpdate(l, c)
                       [] c.op = "del" -> AddDelete(l, c)
    IN  FoldLeft(Add, list, entry)

HasKind(entry, kind) == \E i \in DOMAIN entry : entry[i].id.kind = kind

(* One entry of the range: the marker only flags it, the entry a `Since`   *)
(* query starts at is only noted, any other one is folded in.  0 stands    *)
(* for "no such change" in `container` and `item`.                         *)
ReadEntry(acc, i, value, skip) ==
    IF skip THEN [acc EXCEPT !.from = i, !.to = i]
    ELSE IF value = Truncated THEN [acc EXCEPT !.truncated = TRUE]
    ELSE [acc EXCEPT
             !.changes = Deserialize(acc.changes, value),
             !.from = IF acc.changes = <<>> THEN i ELSE @,
             !.to = i,
             !.container = IF HasKind(value, "container") THEN i ELSE @,
             !.item = IF HasKind(value, "item") THEN i ELSE @]

Unread == [changes |-> <<>>, from |-> 0, to |-> 0, container |-> 0,
           item |-> 0, truncated |-> FALSE]

(* Store::changes over the positions of `log` from `from` to `to`.         *)
Changes(log, from, to, inclusive) ==
    LET ids == SelectSeq([i \in 1..Len(log) |-> i],
                         LAMBDA i : from <= i /\ i <= to /\ log[i] # Gone)
        Read(acc, i) == ReadEntry(acc, i, log[i], ~inclusive /\ i = from)
    IN  FoldLeft(Read, Unread, ids)

ChangesSince(log, id) == Changes(log, id, Len(log), FALSE)

(* get_last_change_id: the newest key there is, the marker included.       *)
LastChangeId(log) ==
    LET ids == {i \in DOMAIN log : log[i] # Gone}
    IN  IF ids = {} THEN 0 ELSE Max(ids)

-----------------------------------------------------------------------------
(* Truncation (delete_changes).                                            *)

(* Where to cut so that `keep` entries remain behind the cut, 0 if there   *)
(* are not more than that.                                                 *)
CutAt(log, keep) ==
    LET ids == {i \in DOMAIN log : log[i] # Gone}
        cut == {i \in ids : Cardinality({j \in ids : j > i}) = keep}
    IN  IF cut = {} THEN 0 ELSE Max(cut)

DeleteRange(log, cut) == [i \in DOMAIN log |-> IF i < cut THEN Gone ELSE log[i]]

WriteMarker(log, cut) == [log EXCEPT ![cut] = Truncated]

=============================================================================
