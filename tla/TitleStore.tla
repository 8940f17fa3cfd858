----------------------------- MODULE TitleStore -----------------------------
(***************************************************************************)
(* The title database (nx86-title-db/src/lib.rs): a table of titles, whose *)
(* primary key is the title id, and files beside it: the content of a      *)
(* synthetic or homebrew title and two sidecars.  Windows of the emulator  *)
(* share both; any of them may fail or disappear between two writes.       *)
(***************************************************************************)
EXTENDS SequencesExt, FiniteSets

CONSTANTS Windows, Ids,
          Kinds,       \* TitleSourceKind: "placeholder", "synthetic", "homebrew"
          MaxAttempts  \* bound on creations and rewrites tried
ASSUME TitleAssumption ==
    /\ IsFiniteSet(Windows) /\ MaxAttempts \in Nat
    /\ Kinds \subseteq {"placeholder", "synthetic", "homebrew"}

VARIABLES rows,   \* the table: [id -> [n, kind]], for the ids in it
          files,  \* [<<id, name>> -> [n, whole]], for the files that exist
          op,     \* [window -> what it is writing], todo empty when idle
          open,   \* windows whose database is open
          listed, \* [window -> ids in its library screen]
          view,   \* [window -> the title in its inspector], None if none
          created,\* history: the attempts that returned Ok
          torn,   \* history: <<window, id>> of unfinished rewrites
          tried   \* attempts so far
titleVars == <<rows, files, op, open, listed, view, created, torn, tried>>

None == [id |-> "none", n |-> 0]
Idle == [id |-> "none", n |-> 0, kind |-> "placeholder", todo |-> <<>>, filling |-> FALSE, rewrite |-> FALSE]
Put(f, key, value) == [k \in DOMAIN f \cup {key} |-> IF k = key THEN value ELSE f[k]]
NoRows == [id \in {} |-> 0]

TitleInit ==
    /\ rows = NoRows /\ files = NoRows
    /\ op = [w \in Windows |-> Idle] /\ open = {}
    /\ listed = [w \in Windows |-> {}] /\ view = [w \in Windows |-> None]
    /\ created = {} /\ torn = {} /\ tried = 0

\* TitleDatabase::open: directories, connection, migrations; then the window
\* lists the titles.  A failure leaves the database closed.
OpenDatabase(w) ==
    /\ w \notin open
    /\ open' = open \cup {w} /\ listed' = [listed EXCEPT ![w] = DOMAIN rows]
    /\ UNCHANGED <<rows, files, op, view, created, torn, tried>>

\* list_titles
Refresh(w) ==
    /\ w \in open /\ op[w] = Idle
    /\ listed' = [listed EXCEPT ![w] = DOMAIN rows]
    /\ UNCHANGED <<rows, files, op, open, view, created, torn, tried>>

-----------------------------------------------------------------------------
(* create_placeholder, create_synthetic_title, create_homebrew_title.      *)

\* Mutant: the content is written before the row is inserted.
StepsContentFirst(kind) ==
    (IF kind = "placeholder" THEN <<>> ELSE <<kind>>) \o <<"row", "meta", "settings">>
Steps(kind) == <<"row">> \o (IF kind = "placeholder" THEN <<>> ELSE <<kind>>) \o <<"meta", "settings">>
Sidecars == <<"meta", "settings">>

\* The title's directories exist from here on; the id is well formed.
Create(w, id, kind) ==
    /\ w \in open /\ op[w] = Idle /\ tried < MaxAttempts
    /\ tried' = tried + 1
    /\ op' = [op EXCEPT ![w] = [id |-> id, n |-> tried + 1, kind |-> kind, todo |-> Steps(kind), filling |-> FALSE,
                              rewrite |-> FALSE]]
    /\ UNCHANGED <<rows, files, open, listed, view, created, torn>>

\* An error ends the call where it is; what was written stays.
Fails(w) ==
    /\ op[w] # Idle
    /\ op' = [op EXCEPT ![w] = Idle]
    /\ UNCHANGED <<rows, files, open, listed, view, created, torn, tried>>

\* insert_title: one statement; the primary key refuses a second row.
InsertTitle(w) ==
    /\ op[w].todo # <<>> /\ Head(op[w].todo) = "row" /\ op[w].id \notin DOMAIN rows
    /\ rows' = Put(rows, op[w].id, [n |-> op[w].n, kind |-> op[w].kind])
    /\ op' = [op EXCEPT ![w].todo = Tail(@)]
    /\ UNCHANGED <<files, open, listed, view, created, torn, tried>>

\* fs::write: the file is created or emptied, then filled.
Truncate(w) ==
    /\ op[w].todo # <<>> /\ Head(op[w].todo) # "row" /\ ~op[w].filling
    /\ files' = Put(files, <<op[w].id, Head(op[w].todo)>>, [n |-> op[w].n, whole |-> FALSE])
    /\ op' = [op EXCEPT ![w].filling = TRUE]
    /\ UNCHANGED <<rows, open, listed, view, created, torn, tried>>
Fill(w) ==
    /\ op[w].todo # <<>> /\ op[w].filling
    /\ files' = Put(files, <<op[w].id, Head(op[w].todo)>>, [n |-> op[w].n, whole |-> TRUE])
    /\ op' = [op EXCEPT ![w].todo = Tail(@), ![w].filling = FALSE]
    /\ UNCHANGED <<rows, open, listed, view, created, torn, tried>>

\* The call returns Ok; after a creation the window reads the list again.
Created(w) ==
    /\ op[w] # Idle /\ op[w].todo = <<>>
    /\ op' = [op EXCEPT ![w] = Idle]
    /\ IF op[w].rewrite
       THEN torn' = torn \ {<<w, op[w].id>>} /\ UNCHANGED <<listed, created>>
       ELSE /\ created' = created \cup {op[w].n} /\ listed' = [listed EXCEPT ![w] = DOMAIN rows]
            /\ UNCHANGED torn
    /\ UNCHANGED <<rows, files, open, view, tried>>

\* rewrite_sidecars: the row's entry, written again.
RewriteSidecars(w, id) ==
    /\ w \in open /\ op[w] = Idle /\ id \in DOMAIN rows /\ tried < MaxAttempts
    /\ tried' = tried + 1
    /\ op' = [op EXCEPT ![w] = [id |-> id, n |-> rows[id].n, kind |-> rows[id].kind, todo |-> Sidecars, filling |-> FALSE,
                              rewrite |-> TRUE]]
    /\ torn' = torn \cup {<<w, id>>}
    /\ UNCHANGED <<rows, files, open, listed, view, created>>

\* inspect_title: the row, then its content.  Anything but a whole synthetic
\* program is an error and leaves no new view; "not found" and a failed read
\* keep the old one, content that is not synthetic removes it.
InspectTitle(w, id) ==
    /\ w \in open /\ op[w] = Idle
    /\ LET file == <<id, rows[id].kind>>
           show == CASE id \notin DOMAIN rows -> view[w]
                     [] id \in DOMAIN rows /\ rows[id].kind = "placeholder" -> None
                     [] id \in DOMAIN rows /\ rows[id].kind # "placeholder" /\ file \notin DOMAIN files -> view[w]
                     [] OTHER -> IF rows[id].kind = "synthetic" /\ files[file].whole THEN [id |-> id, n |-> files[file].n] ELSE None
       IN  view' = [view EXCEPT ![w] = show]
    /\ UNCHANGED <<rows, files, op, open, listed, created, torn, tried>>

\* A window closes, or its process dies in the middle of a call.
CloseWindow(w) ==
    /\ w \in open
    /\ open' = open \ {w} /\ op' = [op EXCEPT ![w] = Idle]
    /\ listed' = [listed EXCEPT ![w] = {}] /\ view' = [view EXCEPT ![w] = None]
    /\ UNCHANGED <<rows, files, created, torn, tried>>

TitleNext ==
    \E w \in Windows :
       \/ OpenDatabase(w) \/ Refresh(w) \/ Fails(w) \/ CloseWindow(w)
       \/ InsertTitle(w) \/ Truncate(w) \/ Fill(w) \/ Created(w)
       \/ \E id \in Ids : RewriteSidecars(w, id) \/ InspectTitle(w, id) \/ \E kind \in Kinds : Create(w, id, kind)

-----------------------------------------------------------------------------
(* A title's files were written by the call that inserted its row, and by  *)
(* no other, whoever else tried the same id; a call that returned Ok left  *)
(* its content and sidecars whole (an interrupted rewrite may tear the     *)
(* sidecars); no window lists or shows what the table does not hold        *)
(* (insert_title before fs::write, write_sidecars, list_titles,            *)
(* inspect_title).                                                         *)
FilesOwned ==
    \A f \in DOMAIN files : f[1] \in DOMAIN rows /\ rows[f[1]].n = files[f].n /\ f[2] \in {rows[f[1]].kind, "meta", "settings"}
CreatedWhole ==
    \A n \in created : \E id \in DOMAIN rows :
       /\ rows[id].n = n
       /\ \A name \in ToSet(Steps(rows[id].kind)) \ {"row"} :
             /\ <<id, name>> \in DOMAIN files
             /\ files[<<id, name>>].whole \/ (name \in ToSet(Sidecars) /\ \E w \in Windows : <<w, id>> \in torn)
ScreensTrue ==
    \A w \in Windows :
       /\ listed[w] \subseteq DOMAIN rows
       /\ view[w] # None => view[w].id \in DOMAIN rows /\ rows[view[w].id].n = view[w].n
TitlesKept == FilesOwned /\ CreatedWhole /\ ScreensTrue
=============================================================================
