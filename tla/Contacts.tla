----------------------------- MODULE Contacts -----------------------------
(***************************************************************************)
(* The contacts: ContactsManager's table, ContactsController's operations, *)
(* the list on screen, and the import of vCard and CSV files.  A file is   *)
(* what the line splitting leaves: vCard lines as property and value, CSV  *)
(* lines as rows of cells.  Notes, and the order of the list, are left     *)
(* out.                                                                    *)
(***************************************************************************)
EXTENDS Naturals, FiniteSets, SequencesExt

CONSTANTS
  MaxContacts,     \* bound: contacts in the table
  MaxCardLines,    \* bound: property lines of a vCard
  MaxSections,     \* bound: sections of a vCard file, rows of a CSV file
  MaxColumns       \* bound: columns of a CSV file

ASSUME ContactsBounds ==
  {MaxContacts, MaxCardLines, MaxSections, MaxColumns} \subseteq Nat

VARIABLES
  contacts,        \* rows: [id, contact, favorite]
  shownContacts,   \* ContactsModel's snapshot
  lastImport       \* history: the file imported in the last step, or NoImport

contactsVars == <<contacts, shownContacts, lastImport>>

Contact(name, sip, phone) == [displayName |-> name, sipUri |-> sip, phone |-> phone]
Blank == Contact("", "", "")
NoImport == [kind |-> "none"]

ContactsInit == contacts = {} /\ shownContacts = {} /\ lastImport = NoImport

-----------------------------------------------------------------------------
(* Import: the parsers.                                                    *)

\* sanitizePhone: what is left of a value without digits is empty.
SanitizePhone(value) == IF value = "ext" THEN "" ELSE value

isSipUri(value) == value = "sip:a"

Carries(c) == c # Blank

\* The card ends: the name of N stands in for a missing FN, and a card that
\* carries nothing is an error.
EndCard(s) ==
  LET c == IF s.current.displayName = "" THEN [s.current EXCEPT !.displayName = s.nFallback]
           ELSE s.current
  IN [s EXCEPT !.current = c, !.inCard = FALSE,
               !.contacts = IF Carries(c) THEN Append(@, c) ELSE @,
               !.errors = IF Carries(c) THEN @ ELSE @ + 1]

\* Mutant: what the previous card said stays.
BeginDirtyCard(s) == [s EXCEPT !.inCard = TRUE]

BeginCard(s) == [s EXCEPT !.current = Blank, !.nFallback = "", !.inCard = TRUE]

\* One line of parseVCard's loop.
VCardLine(s, line) ==
  CASE line.prop = "BEGIN" -> BeginCard(s)
    [] line.prop = "END" -> EndCard(s)
    [] line.prop \notin {"BEGIN", "END"} /\ ~s.inCard -> s
    [] line.prop = "FN" /\ s.inCard -> [s EXCEPT !.current.displayName = line.value]
    [] line.prop = "N" /\ s.inCard -> [s EXCEPT !.nFallback = line.value]
    [] line.prop = "TEL" /\ s.inCard ->
         IF s.current.phone = "" THEN [s EXCEPT !.current.phone = SanitizePhone(line.value)]
         ELSE s
    [] line.prop = "IMPP" /\ s.inCard ->
         IF isSipUri(line.value) THEN [s EXCEPT !.current.sipUri = line.value] ELSE s
    [] line.prop = "X-SIP" /\ s.inCard -> [s EXCEPT !.current.sipUri = line.value]

ParseVCard(lines) ==
  LET start == [inCard |-> FALSE, current |-> Blank, nFallback |-> "",
                contacts |-> <<>>, errors |-> 0]
      end == FoldLeft(VCardLine, start, lines)
  IN [contacts |-> end.contacts, errors |-> end.errors]

\* findColumn: the first column of that heading, 0 for none.
FindColumn(header, heading) ==
  IF \E i \in DOMAIN header : header[i] = heading
  THEN CHOOSE i \in DOMAIN header :
         header[i] = heading /\ \A j \in 1..(i - 1) : header[j] # heading
  ELSE 0

\* The cell of a column, empty when there is no such column or the row is short.
Cell(header, row, heading) ==
  LET col == FindColumn(header, heading)
  IN IF col \in DOMAIN row THEN row[col] ELSE ""

\* (first + ' ' + last).trimmed()
FullName(first, last) ==
  CASE first = "" -> last
    [] last = "" -> first
    [] first # "" /\ last # "" -> "first last"

\* One row of parseCsv's loop.
CsvRow(header, s, row) ==
  LET name == Cell(header, row, "name")
      c == Contact(IF name = "" THEN FullName(Cell(header, row, "first"), Cell(header, row, "last"))
                   ELSE name,
                   Cell(header, row, "sip"),
                   SanitizePhone(Cell(header, row, "phone")))
  IN IF row = <<"">> THEN s     \* a blank line
     ELSE IF Carries(c) THEN [s EXCEPT !.contacts = Append(@, c)]
     ELSE [s EXCEPT !.errors = @ + 1]

ParseCsv(header, rows) ==
  LET Row(s, row) == CsvRow(header, s, row)
  IN FoldLeft(Row, [contacts |-> <<>>, errors |-> 0], rows)

-----------------------------------------------------------------------------
(* The files offered for import.                                           *)

CardLines ==
  [prop : {"FN"}, value : {"fn", ""}] \cup [prop : {"N"}, value : {"n"}]
    \cup [prop : {"TEL"}, value : {"1", "2", "ext"}]
    \cup [prop : {"IMPP"}, value : {"sip:a", "xmpp:a"}]
    \cup [prop : {"X-SIP"}, value : {"sip:b"}]

\* A card, a card cut off before its END, and a line outside any card.
Sections ==
  [kind : {"card"}, lines : BoundedSeq(CardLines, MaxCardLines)]
    \cup [kind : {"truncated"}, lines : BoundedSeq(CardLines, 1)]
    \cup [kind : {"outside"}, lines : BoundedSeq(CardLines, 1)]

SectionLines(s) ==
  (IF s.kind # "outside" THEN <<[prop |-> "BEGIN", value |-> "VCARD"]>> ELSE <<>>)
    \o s.lines
    \o (IF s.kind = "card" THEN <<[prop |-> "END", value |-> "VCARD"]>> ELSE <<>>)

\* A line outside would belong to the truncated card before it.
VCardFiles ==
  {f \in BoundedSeq(Sections, MaxSections) :
     \A i \in 2..Len(f) : ~(f[i].kind = "outside" /\ f[i - 1].kind = "truncated")}

Headings == {"name", "first", "last", "phone", "sip", "other"}

CsvFiles ==
  LET Line(cells) == BoundedSeq(cells, MaxColumns) \ {<<>>}
  IN [header : Line(Headings), rows : BoundedSeq(Line({"", "1", "ext"}), MaxSections)]

-----------------------------------------------------------------------------
(* ContactsController with ContactsManager.  A statement that fails changes *)
(* nothing.                                                                *)

NextContactId ==
  IF contacts = {} THEN 1
  ELSE 1 + (CHOOSE r \in contacts : \A s \in contacts : s.id <= r.id).id

findById(id) == {r \in contacts : r.id = id}

\* refresh: the model takes over the whole list().
RefreshContacts == shownContacts' = contacts'

\* The row ContactsManager's add writes.
NewRow(id, c) == [id |-> id, contact |-> c, favorite |-> FALSE]

AddContact(c) ==
  /\ Cardinality(contacts) < MaxContacts
  /\ contacts' = contacts \cup {NewRow(NextContactId, c)}
  /\ RefreshContacts
  /\ lastImport' = NoImport

\* The row of `old' is rewritten as `new'.
UpdateRow(old, new) ==
  /\ contacts' = (contacts \ {old}) \cup {new}
  /\ RefreshContacts
  /\ lastImport' = NoImport

UpdateContact(id, c) ==
  \E cur \in findById(id) : UpdateRow(cur, [cur EXCEPT !.contact = c])

SetFavorite(id, favorite) ==
  \E cur \in findById(id) :
    cur.favorite # favorite /\ UpdateRow(cur, [cur EXCEPT !.favorite = favorite])

RemoveContact(id) ==
  /\ findById(id) # {}
  /\ contacts' = contacts \ findById(id)
  /\ RefreshContacts
  /\ lastImport' = NoImport

\* importFromFile: each contact of the result is added on its own, and the list
\* is refreshed when one was.
ImportFromFile(kind, file, result) ==
  \E added \in SUBSET DOMAIN result.contacts :
    /\ contacts' = {NewRow(Cardinality({j \in added : j <= i}), result.contacts[i]) : i \in added}
    /\ IF added = {} THEN UNCHANGED shownContacts ELSE RefreshContacts
    /\ lastImport' = [kind |-> kind, file |-> file, dropped |-> result.errors,
                      failed |-> added # DOMAIN result.contacts]

ImportVCard(f) ==
  ImportFromFile("vcf", f, ParseVCard(FlattenSeq([i \in DOMAIN f |-> SectionLines(f[i])])))

ImportCsv(f) == ImportFromFile("csv", f, ParseCsv(f.header, f.rows))

EditedContacts == {Contact("fn", "sip:a", ""), Contact("n", "", "1")}

\* Bound: imports only into an empty table, and no second one right after one
\* that wrote nothing.
MayImport == contacts = {} /\ lastImport = NoImport

ContactsNext ==
  \/ \E c \in EditedContacts : AddContact(c)
  \/ \E id \in 1..MaxContacts :
       \/ RemoveContact(id)
       \/ \E c \in EditedContacts : UpdateContact(id, c)
       \/ \E b \in BOOLEAN : SetFavorite(id, b)
  \/ MayImport /\ \E f \in VCardFiles : ImportVCard(f)
  \/ MayImport /\ \E f \in CsvFiles : ImportCsv(f)

-----------------------------------------------------------------------------
(* Properties.                                                             *)

\* The lines of a card that have one of these properties, by index.
LinesOf(card, props) == {i \in DOMAIN card.lines : card.lines[i].prop \in props}

LastValue(card, at) == IF at = {} THEN "" ELSE card.lines[Max(at)].value
FirstValue(card, at) == IF at = {} THEN "" ELSE card.lines[Min(at)].value

\* What one card says of a person: FN before N, the first usable number, the
\* last SIP address.
PersonOf(card) ==
  LET fn == LastValue(card, LinesOf(card, {"FN"}))
      numbers == {i \in LinesOf(card, {"TEL"}) : card.lines[i].value # "ext"}
      sips == {i \in LinesOf(card, {"IMPP", "X-SIP"}) : card.lines[i].value # "xmpp:a"}
  IN Contact(IF fn = "" THEN LastValue(card, LinesOf(card, {"N"})) ELSE fn,
             LastValue(card, sips), FirstValue(card, numbers))

\* The complete cards of a vCard file, and those that say something.
Cards(f) == {i \in DOMAIN f : f[i].kind = "card"}
Speaking(f) == {i \in Cards(f) : Carries(PersonOf(f[i]))}

\* For vCards the people of the complete cards, in order, and the cards that say
\* nothing counted as dropped; for CSV one contact or one drop per line.
ImportFaithful ==
  LET f == lastImport.file
  IN CASE lastImport.kind = "vcf" ->
            /\ contacts = {NewRow(Cardinality({j \in Speaking(f) : j <= i}), PersonOf(f[i])) : i \in Speaking(f)}
            /\ lastImport.dropped = Cardinality(Cards(f) \ Speaking(f))
       [] lastImport.kind = "csv" ->
            Cardinality(contacts) + lastImport.dropped = Cardinality({i \in DOMAIN f.rows : f.rows[i] # <<"">>})

\* The list shows the table after every operation, and an import that had no
\* failing insert wrote exactly what the file says: no contact mixed with its
\* neighbour's, none lost but the cards cut off, every empty one counted.
ContactsSound ==
  /\ shownContacts = contacts
  /\ lastImport # NoImport => lastImport.failed \/ ImportFaithful

=============================================================================
