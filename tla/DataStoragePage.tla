--------------------------- MODULE DataStoragePage ---------------------------
(***************************************************************************)
(* The data storage view of the console, open on several pages, and the    *)
(* data collection behind it: the cells are edited in place, an edit can   *)
(* be undone from the message that it was saved, and entries are added     *)
(* with a form.  Each of these posts datastorage/set to ControlAPI, which  *)
(* runs beside the others; the answers come in any order.                  *)
(*                                                                         *)
(* The category is left out: it goes with the key everywhere.              *)
(***************************************************************************)
EXTENDS Integers, Sequences, FiniteSets, SequencesExt

CONSTANTS
    Pages,          \* the open pages
    Keys,           \* keys of entries
    Texts,          \* values of entries
    PaddedKeys,     \* bound: keys that are typed with blanks around them, too
    Loaded,         \* bound: sets of keys that entries may have at first
    Empty,          \* the empty value
    MaxRequests,    \* bound: calls of datastorage/set
    MaxReloads      \* bound: times a page is loaded again

ASSUME DataStorageAssumption ==
    /\ Empty \notin Texts /\ PaddedKeys \subseteq Keys /\ IsFiniteSet(Keys) /\ Loaded \subseteq SUBSET Keys
    /\ MaxRequests \in Nat
    /\ MaxReloads \in Nat

\* An entry's keyUpper is the key as it was typed, maybe with blanks around it;
\* its key, which the pages show, is trimmed.
Names == {n \in [key : Keys, padded : BOOLEAN] : n.padded => n.key \in PaddedKeys}
Plain(k) == [key |-> k, padded |-> FALSE]

Values == Texts \cup {Empty}

VARIABLES
    docs,       \* per name, the values of its documents: more than one if raced
    rows,       \* per page, the rows of the table
    elem,       \* per page, dataStorageElem: the cell that was edited last
    entry,      \* per page, Zkey and Zdata: the entry that was added last
    offered,    \* per page, a message that offers Undo has been shown
    requests,   \* the calls of datastorage/set that are not answered yet
    reloads,    \* history: how many times a page was loaded again
    sent,       \* history: how many calls there were
    mixed,      \* history: keys of calls that were made while others were going on
    writers,    \* history: per key, the pages that posted it
    told,       \* history: keys of which a page was told a failure
    raced       \* history: names with two upserts at a time

storageVars == <<docs, rows, elem, entry, offered, requests, reloads, sent, mixed, writers,
               told, raced>>

Row == [name : Names, text : Values, editable : BOOLEAN]
NoElem == [row |-> 0, oldValue |-> Empty]
Entry == [name : Names, text : Values]
NoEntry == Empty

Request ==
    [n : 1 .. MaxRequests, page : Pages, lost : BOOLEAN, new : BOOLEAN, name : Names,
     value : Values, step : {"sent", "missed", "saved", "failed"}]

StorageTypeOK ==
    /\ docs \in [Names -> Seq(Texts)]
    /\ rows \in [Pages -> Seq(Row)]
    /\ \A p \in Pages : elem[p].row \in 0 .. Len(rows[p]) /\ elem[p].oldValue \in Values
    /\ entry \in [Pages -> Entry \cup {NoEntry}]
    /\ offered \in [Pages -> BOOLEAN]
    /\ requests \subseteq Request
    /\ \A q \in requests : q.step = "missed" => q.new /\ q.value # Empty
    /\ sent \in 0 .. MaxRequests /\ reloads \in 0 .. MaxReloads
    /\ writers \in [Keys -> SUBSET Pages]
    /\ mixed \subseteq Keys /\ told \subseteq Keys /\ raced \subseteq Names

\* The documents of the collection, by their names and places.
Documents(ds) == UNION {{<<n, k>> : k \in DOMAIN ds[n]} : n \in Names}

\* The rows a page is loaded with: those of the collection, all editable.
Listing(ds) ==
    LET order == SetToSeq(Documents(ds))
    IN  [i \in DOMAIN order |-> [name |-> order[i][1],
                                text |-> ds[order[i][1]][order[i][2]],
                                editable |-> TRUE]]

StorageInit ==
    /\ \E t \in Texts, loaded \in Loaded :
          docs = [n \in Names |-> IF ~n.padded /\ n.key \in loaded THEN <<t>> ELSE <<>>]
    /\ rows = [p \in Pages |-> Listing(docs)]
    /\ elem = [p \in Pages |-> NoElem]
    /\ entry = [p \in Pages |-> NoEntry]
    /\ offered = [p \in Pages |-> FALSE]
    /\ requests = {}
    /\ sent = 0
    /\ reloads = 0
    /\ mixed = {}
    /\ writers = [k \in Keys |-> {}]
    /\ told = {}
    /\ raced = {}

-----------------------------------------------------------------------------
(* The page.                                                               *)

\* postToControlAPI('datastorage/set', ...).
Post(p, new, name, value) ==
    /\ sent < MaxRequests
    /\ sent' = sent + 1
    /\ requests' = requests \cup
          {[n |-> sent + 1, page |-> p, lost |-> FALSE, new |-> new, name |-> name,
            value |-> value, step |-> "sent"]}
    /\ writers' = [writers EXCEPT ![name.key] = @ \cup {p}]
    /\ LET beside == {q \in requests : \/ q.name.key = name.key
                                      \/ (new /\ q.new /\ q.page = p)}
       IN  mixed' = IF beside = {} THEN mixed
                    ELSE mixed \cup {name.key} \cup {q.name.key : q \in beside}

\* A row that shows the key of another one is not told from it.
SetText(p, r, t) == rows' = [rows EXCEPT ![p][r].text = t]

\* dataStorageSet, from the editor of a cell: the cell already shows the value.
Edit(p, r, t) ==
    /\ rows[p][r].editable /\ t # rows[p][r].text
    /\ SetText(p, r, t)
    /\ elem' = [elem EXCEPT ![p] = [row |-> r, oldValue |-> rows[p][r].text]]
    /\ Post(p, FALSE, Plain(rows[p][r].name.key), t)
    /\ UNCHANGED <<docs, entry, offered, reloads, told, raced>>

\* Mutant of Undone: the value is sent and the cell is left as it is.
UndoneSilently(p) ==
    /\ Post(p, FALSE, Plain(rows[p][elem[p].row].name.key), elem[p].oldValue)
    /\ UNCHANGED rows

\* The old value of the cell that was edited last is sent and shown.
Undone(p) ==
    /\ Post(p, FALSE, Plain(rows[p][elem[p].row].name.key), elem[p].oldValue)
    /\ SetText(p, elem[p].row, elem[p].oldValue)

\* dataStorageSnackUndoHandler, from whichever message, which may be pressed more
\* than once; how long a message is shown is not modelled.
Undo(p) ==
    /\ offered[p]
    /\ elem[p].row # 0
    /\ Undone(p)
    /\ UNCHANGED <<docs, elem, entry, offered, reloads, told, raced>>

\* addNewDataStorageObjectSave.
AddNew(p, name, t) ==
    /\ entry' = [entry EXCEPT ![p] = [name |-> name, text |-> t]]
    /\ Post(p, TRUE, name, t)
    /\ UNCHANGED <<docs, rows, elem, offered, reloads, told, raced>>

\* The page is loaded again: what it has sent goes on without it.
Reload(p) ==
    /\ reloads < MaxReloads
    /\ reloads' = reloads + 1
    /\ rows' = [rows EXCEPT ![p] = Listing(docs)]
    /\ elem' = [elem EXCEPT ![p] = NoElem]
    /\ offered' = [offered EXCEPT ![p] = FALSE]
    /\ requests' = {IF q.page = p THEN [q EXCEPT !.lost = TRUE] ELSE q : q \in requests}
    /\ mixed' = mixed \cup {q.name.key : q \in requests}
    /\ UNCHANGED <<docs, entry, sent, writers, told, raced>>

-----------------------------------------------------------------------------
(* ControlAPI and DataStorage.                                             *)

Moved(q, step) == requests' = (requests \ {q}) \cup {[q EXCEPT !.step = step]}

\* The call is refused (the session, the type, the database) or never arrives.
\* (One whose answer alone is lost is told as a failure, too, and left out.)
Refused(q) ==
    /\ q.step = "sent"
    /\ Moved(q, "failed")
    /\ UNCHANGED docs

\* An empty value: one document of the name is deleted, if there is one.
Delete(q) ==
    /\ q.step = "sent" /\ q.value = Empty
    /\ IF docs[q.name] = <<>>
       THEN Moved(q, "failed") /\ UNCHANGED docs
       ELSE /\ Moved(q, "saved")
            /\ \E k \in DOMAIN docs[q.name] :
                  docs' = [docs EXCEPT ![q.name] = RemoveAt(@, k)]

\* Mutant of Finds: an upsert does not look for the document.
FindsNever(q) == ~q.new /\ docs[q.name] # <<>>

\* The filter of replaceOne matches.
Finds(q) == docs[q.name] # <<>>

\* replaceOne has matched nothing: an upsert inserts, anything else has failed.
Unmatched(q) == Moved(q, IF q.new THEN "missed" ELSE "failed")

\* replaceOne: one document of the name is replaced.
Replace(q) ==
    /\ q.step = "sent" /\ q.value # Empty
    /\ IF Finds(q)
       THEN /\ Moved(q, "saved")
            /\ \E k \in DOMAIN docs[q.name] : docs' = [docs EXCEPT ![q.name][k] = q.value]
       ELSE Unmatched(q) /\ UNCHANGED docs

\* The insert of an upsert; no index keeps two from inserting.
Insert(q) ==
    /\ q.step = "missed"
    /\ Moved(q, "saved")
    /\ docs' = [docs EXCEPT ![q.name] = Append(@, q.value)]

Overlapping(q) ==
    \E o \in requests \ {q} : o.new /\ o.name = q.name /\ o.step = "missed"

Serve ==
    /\ \E q \in requests :
          /\ Refused(q) \/ Delete(q) \/ Replace(q) \/ Insert(q)
          /\ raced' = IF q.new /\ Overlapping(q) THEN raced \cup {q.name} ELSE raced
    /\ UNCHANGED <<rows, elem, entry, offered, reloads, sent, mixed, writers, told>>

-----------------------------------------------------------------------------
(* The answers.                                                            *)

\* dataStorageSetComplete and addNewDataStorageObjectSaveComplete.
Complete ==
    /\ \E q \in requests :
          /\ q.step \in {"saved", "failed"}
          /\ requests' = requests \ {q}
          /\ told' = IF q.step = "failed" THEN told \cup {q.name.key} ELSE told
          /\ LET shown == q.step = "saved" /\ ~q.lost
             IN  /\ offered' = IF shown /\ ~q.new
                             THEN [offered EXCEPT ![q.page] = TRUE] ELSE offered
                 /\ rows' = IF shown /\ q.new
                            THEN [rows EXCEPT ![q.page] =
                                    Append(@, [name |-> entry[q.page].name,
                                               text |-> entry[q.page].text,
                                               editable |-> FALSE])]
                            ELSE rows
    /\ UNCHANGED <<docs, elem, entry, reloads, sent, mixed, writers, raced>>

StorageNext ==
    \/ \E p \in Pages :
          \/ \E r \in DOMAIN rows[p], t \in Values : Edit(p, r, t)
          \/ Undo(p) \/ Reload(p)
          \/ \E n \in Names, t \in Values : AddNew(p, n, t)
    \/ Serve \/ Complete

-----------------------------------------------------------------------------
(* Properties.                                                             *)

\* The value of an entry, if it has one document.
Stored(n) == IF docs[n] = <<>> THEN Empty ELSE docs[n][1]

\* When no call about a key is on its way, a page that alone has posted it shows
\* what is stored: its row has the entry's value, and an entry without a row is
\* not there.  That needs no failure to have been told, calls about the key that
\* were made one after the other, and one row of the key; an edit, an undo (from
\* whichever message) and an added entry of other keys do not matter.
ShownIsStored ==
    \A p \in Pages, k \in Keys :
        LET mine == {r \in DOMAIN rows[p] : rows[p][r].name.key = k}
        IN  /\ k \notin mixed \cup told
            /\ writers[k] \subseteq {p}
            /\ \A q \in requests : q.name.key # k
            /\ Cardinality(mine) <= 1
            =>  /\ \A r \in mine : rows[p][r].text = Stored(rows[p][r].name)
                /\ mine = {} => \A n \in Names : n.key = k => docs[n] = <<>>

\* "TenantId + KeyUpper + CategoryUpper = Unique combo", unless two upserts of
\* the same entry have both found nothing.
UniqueUnlessRaced ==
    \A n \in Names : Len(docs[n]) > 1 => n \in raced
=============================================================================
