----------------------------- MODULE SearchIndex -----------------------------
(***************************************************************************)
(* The full-text index of ideas, which SearchService and its backends keep *)
(* beside them: a table of its own in SQLite, columns of the idea's row in *)
(* PostgreSQL.  IdeaService stores an idea, its tags and its index entry   *)
(* with a commit for each.                                                 *)
(*                                                                         *)
(* A text, and the set of an idea's tags, are known by their version: each *)
(* save makes a new one.                                                   *)
(***************************************************************************)
EXTENDS Integers, Workers

CONSTANTS
  SearchedIdeas,  \* ids of ideas
  MaxText, MaxTagging  \* bounds: texts and taggings that an id ever has

ASSUME SearchIndexAssumption ==
  SearchedIdeas # {} /\ IsFiniteSet(SearchedIdeas) /\ {MaxText, MaxTagging} \subseteq Nat

VARIABLES
  setup,        \* SQLite with the table that the application creates, SQLite with the
                \* triggers of the migration, or the columns in PostgreSQL
  searchIdeas,  \* the rows of ideas, with their links to tags
  index,        \* the entry of each idea
  torn,         \* history: ideas whose handler was cut short, or which the retention job
                \* stripped while they were restored, and not indexed since
  searchReq     \* the handler that each worker runs

searchVars == <<workers, setup, searchIdeas, index, torn, searchReq>>

-----------------------------------------------------------------------------
Setups == {"table", "triggers", "columns"}
\* due: deleted, and long ago.
SearchRow == [state : {"none", "live", "deleted", "due"}, text : 0..MaxText, tags : 0..MaxTagging]
IndexEntry == [text : 0..MaxText, tags : 0..MaxTagging]
NoIndexEntry == [text |-> -1, tags |-> -1]
Sqlite == setup # "columns"
Stored(i) == searchIdeas[i].state # "none"
IsLive(i) == searchIdeas[i].state = "live"
IsDue(i) == searchIdeas[i].state = "due"

\* The ideas in hand; whether tags are still to be stored; the text that the
\* session has loaded (0: none); the tags that an UPDATE of the columns sees.
SearchRequest == [pc : {"idle", "edit", "load", "tags", "index", "write", "remove", "delete",
                        "restore", "purge"},
                  ideas : SUBSET SearchedIdeas, tagged : BOOLEAN, text : 0..MaxText,
                  tags : [SearchedIdeas -> 0..MaxTagging]]
SearchIdle == [pc |-> "idle", ideas |-> {}, tagged |-> FALSE, text |-> 0,
               tags |-> [i \in SearchedIdeas |-> 0]]
SearchAt(q, step) == q \in workers /\ searchReq[q].pc = step
SearchGoto(q, r) == searchReq' = [searchReq EXCEPT ![q] = r]
SearchNow(q, step) == SearchGoto(q, [searchReq[q] EXCEPT !.pc = step])
SearchEnds(q) == SearchGoto(q, SearchIdle)
SearchBegins(q, step, ideas, tagged) ==
  /\ SearchAt(q, "idle")
  /\ SearchGoto(q, [SearchIdle EXCEPT !.pc = step, !.ideas = ideas, !.tagged = tagged])
IdeaOf(q) == CHOOSE i \in SearchedIdeas : i \in searchReq[q].ideas

\* The triggers on ideas and idea_tags update an entry, if there is one; the
\* one on an INSERT makes it.
Triggered(i, row, inserted) ==
  IF setup = "triggers" /\ (inserted \/ index[i] # NoIndexEntry)
  THEN index' = [index EXCEPT ![i] = [text |-> row.text, tags |-> row.tags]]
  ELSE index' = index
Writes(i, row) == searchIdeas' = [searchIdeas EXCEPT ![i] = row]
NewText(i) == searchIdeas[i].text + 1
NewTags(i) == searchIdeas[i].tags + 1

SearchIndexInit ==
  /\ WorkersInit /\ setup \in Setups
  /\ searchIdeas = [i \in SearchedIdeas |-> [state |-> "none", text |-> 0, tags |-> 0]]
  /\ index = [i \in SearchedIdeas |-> NoIndexEntry]
  /\ torn = {}
  /\ searchReq = [q \in Worker |-> SearchIdle]

-----------------------------------------------------------------------------
(* Ideas that change *)

\* create_idea commits the row.  An id that a merge has freed is used again.
CreatePage(q, i, tagged) ==
  /\ ~Stored(i) /\ NewText(i) <= MaxText /\ NewTags(i) <= MaxTagging
  /\ SearchBegins(q, "load", {i}, tagged)
  /\ LET row == [state |-> "live", text |-> NewText(i), tags |-> NewTags(i)]
     IN Writes(i, row) /\ Triggered(i, row, TRUE)
  /\ UNCHANGED <<setup, torn>>

\* update_idea loads the row, changes it, and commits.
UpdatePage(q, i, tagged) ==
  /\ IsLive(i) /\ SearchBegins(q, "edit", {i}, tagged)
  /\ UNCHANGED <<setup, searchIdeas, index, torn>>
SavePage(q) ==
  /\ SearchAt(q, "edit") /\ SearchNow(q, "load")
  /\ LET i == IdeaOf(q)
         row == [searchIdeas[i] EXCEPT !.text = NewText(i)]
     IN /\ Stored(i) /\ NewText(i) <= MaxText
        /\ Writes(i, row) /\ Triggered(i, row, FALSE)
  /\ UNCHANGED <<setup, torn>>

\* refresh loads the text, which the session then keeps until its next commit.
LoadPage(q) ==
  /\ SearchAt(q, "load") /\ Stored(IdeaOf(q))
  /\ SearchGoto(q, [searchReq[q] EXCEPT !.text = searchIdeas[IdeaOf(q)].text,
                      !.pc = IF searchReq[q].tagged THEN "tags" ELSE "index"])
  /\ UNCHANGED <<setup, searchIdeas, index, torn>>

\* sync_idea_tags, as far as the index sees it; then refresh again.
\* Mutant of AfterTags: the tags come after the index.
AfterTagsDone(r) == SearchIdle
AfterTags(r) == [r EXCEPT !.pc = "load", !.tagged = FALSE]
StoreTags(q) ==
  /\ SearchAt(q, "tags") /\ SearchGoto(q, AfterTags(searchReq[q]))
  /\ LET i == IdeaOf(q)
         row == [searchIdeas[i] EXCEPT !.tags = NewTags(i)]
     IN /\ Stored(i) /\ NewTags(i) <= MaxTagging
        /\ Writes(i, row) /\ Triggered(i, row, FALSE)
  /\ UNCHANGED <<setup, torn>>

\* soft_delete_idea: the check, remove_idea_from_index, and the deletion.  In
\* PostgreSQL there is no table to delete from: the statement fails, is rolled
\* back and forgotten.
DeletePage(q, i) ==
  /\ IsLive(i) /\ SearchBegins(q, "remove", {i}, FALSE)
  /\ UNCHANGED <<setup, searchIdeas, index, torn>>
RemoveEntry(q) ==
  /\ SearchAt(q, "remove") /\ SearchNow(q, "delete")
  /\ index' = [index EXCEPT ![IdeaOf(q)] = IF Sqlite THEN NoIndexEntry ELSE @]
  /\ UNCHANGED <<setup, searchIdeas, torn>>
SetState(i, state) ==
  LET row == [searchIdeas[i] EXCEPT !.state = state]
  IN Stored(i) /\ Writes(i, row) /\ Triggered(i, row, FALSE)
PageDeleted(q) ==
  /\ SearchAt(q, "delete") /\ SearchEnds(q) /\ SetState(IdeaOf(q), "deleted")
  /\ UNCHANGED <<setup, torn>>

RestorePage(q, i) ==
  /\ searchIdeas[i].state \in {"deleted", "due"} /\ SearchBegins(q, "restore", {i}, FALSE)
  /\ UNCHANGED <<setup, searchIdeas, index, torn>>
PageRestored(q) ==
  /\ SearchAt(q, "restore") /\ SearchNow(q, "load") /\ SetState(IdeaOf(q), "live")
  /\ UNCHANGED <<setup, torn>>

\* soft_delete_for_moderation leaves the index alone.
ModeratePage(q, i) ==
  /\ SearchAt(q, "idle") /\ IsLive(i) /\ SetState(i, "deleted")
  /\ UNCHANGED <<setup, torn, searchReq>>

\* delete_account, with its content: the texts are overwritten, the tags go.
LeavePage(q, i) ==
  /\ SearchAt(q, "idle") /\ Stored(i) /\ NewText(i) <= MaxText /\ NewTags(i) <= MaxTagging
  /\ LET row == [state |-> "deleted", text |-> NewText(i), tags |-> NewTags(i)]
     IN Writes(i, row) /\ Triggered(i, row, FALSE)
  /\ UNCHANGED <<setup, torn, searchReq>>

\* A row that is deleted takes its columns with it; in SQLite only a trigger
\* deletes the entry.
EntryLeft(i) == IF setup = "table" THEN index[i] ELSE NoIndexEntry
Unstored(i) == [searchIdeas[i] EXCEPT !.state = "none"]
MergePage(q, i) ==
  /\ SearchAt(q, "idle") /\ Stored(i)
  /\ Writes(i, Unstored(i))
  /\ index' = [index EXCEPT ![i] = EntryLeft(i)]
  /\ torn' = torn \ {i}
  /\ UNCHANGED <<setup, searchReq>>

\* The retention job: it reads which ideas were deleted long ago, deletes their
\* tags, and then those of them that still are deleted.
DeletedLongAgo(i) ==
  /\ searchIdeas[i].state = "deleted" /\ Writes(i, [searchIdeas[i] EXCEPT !.state = "due"])
  /\ UNCHANGED <<setup, index, torn, searchReq>>
PurgePages(q) ==
  LET ids == {i \in SearchedIdeas : IsDue(i)}
  IN /\ ids # {} /\ SearchBegins(q, "purge", ids, FALSE)
     /\ UNCHANGED <<setup, searchIdeas, index, torn>>
PagesPurged(q) ==
  /\ SearchAt(q, "purge") /\ SearchEnds(q)
  /\ LET purged == {i \in searchReq[q].ideas : IsDue(i)}
         stripped == {i \in searchReq[q].ideas \ purged : Stored(i)}
     IN /\ \A i \in stripped : NewTags(i) <= MaxTagging
        /\ searchIdeas' = [i \in SearchedIdeas |->
             IF i \in purged THEN Unstored(i)
             ELSE IF i \in stripped THEN [searchIdeas[i] EXCEPT !.tags = NewTags(i)]
             ELSE searchIdeas[i]]
        /\ index' = [i \in SearchedIdeas |->
             IF i \in purged THEN EntryLeft(i)
             ELSE IF i \in stripped /\ setup = "triggers" /\ index[i] # NoIndexEntry
             THEN [index[i] EXCEPT !.tags = NewTags(i)] ELSE index[i]]
        /\ torn' = (torn \ purged) \cup stripped
  /\ UNCHANGED setup

-----------------------------------------------------------------------------
(* The index *)

\* An administrator's requests: one idea, or all of them.
ReindexPage(q, i) ==
  /\ SearchBegins(q, "index", {i}, FALSE) /\ UNCHANGED <<setup, searchIdeas, index, torn>>
RebuildIndex(q) ==
  /\ SearchBegins(q, "index", SearchedIdeas, FALSE)
  /\ UNCHANGED <<setup, searchIdeas, index, torn>>

\* ensure_index_ready, when a worker starts: entries are counted against the
\* ideas that aren't deleted, whatever ideas they are of.
Covered ==
  LET entries == {i \in SearchedIdeas : index[i] # NoIndexEntry}
      live == {i \in SearchedIdeas : IsLive(i)}
  IN 10 * Cardinality(entries) >= 9 * Cardinality(live)
StartWorker(q) == Sqlite /\ ~Covered /\ RebuildIndex(q)

\* reindex_idea and rebuild_index in SQLite: one transaction, with the tags of
\* now and the text that the session holds.
IndexedText(r, i) == IF r.text = 0 THEN searchIdeas[i].text ELSE r.text
IndexRows(q) ==
  /\ SearchAt(q, "index") /\ Sqlite /\ SearchEnds(q)
  /\ LET r == searchReq[q]
     IN /\ index' = [i \in SearchedIdeas |->
             IF i \notin r.ideas THEN index[i]
             ELSE IF Stored(i) THEN [text |-> IndexedText(r, i), tags |-> searchIdeas[i].tags]
             ELSE NoIndexEntry]
        /\ torn' = torn \ r.ideas
  /\ UNCHANGED <<setup, searchIdeas>>

\* The same in PostgreSQL: an UPDATE that waits for a row computes its columns
\* again from the row's text of now, but with the tags that it saw at first.
ReadTags(q) ==
  /\ SearchAt(q, "index") /\ ~Sqlite
  /\ SearchGoto(q, [searchReq[q] EXCEPT !.pc = "write",
                      !.tags = [i \in SearchedIdeas |->
                                  IF i \in searchReq[q].ideas THEN searchIdeas[i].tags ELSE 0]])
  /\ UNCHANGED <<setup, searchIdeas, index, torn>>
WriteColumns(q) ==
  /\ SearchAt(q, "write") /\ SearchEnds(q)
  /\ LET r == searchReq[q]
     IN /\ index' = [i \in SearchedIdeas |->
             IF i \in r.ideas /\ Stored(i)
             THEN [text |-> searchIdeas[i].text, tags |-> r.tags[i]] ELSE index[i]]
        /\ torn' = torn \ r.ideas
  /\ UNCHANGED <<setup, searchIdeas>>

\* An exception, also for a row that is gone, or the death of the process.
HasStored(r) ==
  \/ r.pc \in {"load", "tags", "delete"}
  \/ r.pc \in {"index", "write"} /\ r.text # 0
SearchCut(q) ==
  /\ q \in workers /\ searchReq[q].pc # "idle" /\ SearchEnds(q)
  /\ torn' = IF HasStored(searchReq[q]) THEN torn \cup searchReq[q].ideas ELSE torn
  /\ UNCHANGED <<setup, searchIdeas, index>>

SearchStep(q) ==
  \/ \E i \in SearchedIdeas :
       \/ \E b \in BOOLEAN : CreatePage(q, i, b) \/ UpdatePage(q, i, b)
       \/ DeletePage(q, i) \/ RestorePage(q, i) \/ ModeratePage(q, i) \/ LeavePage(q, i)
       \/ MergePage(q, i) \/ ReindexPage(q, i)
  \/ SavePage(q) \/ LoadPage(q) \/ StoreTags(q) \/ RemoveEntry(q) \/ PageDeleted(q)
  \/ PageRestored(q) \/ RebuildIndex(q) \/ StartWorker(q) \/ IndexRows(q) \/ ReadTags(q)
  \/ WriteColumns(q) \/ PurgePages(q) \/ PagesPurged(q) \/ SearchCut(q)
SearchIndexNext ==
  /\ UNCHANGED workers
  /\ (\E i \in SearchedIdeas : DeletedLongAgo(i)) \/ \E q \in workers : SearchStep(q)
SearchIndexSpec == SearchIndexInit /\ [][SearchIndexNext]_searchVars

SearchIndexTypeOK ==
  /\ setup \in Setups
  /\ searchIdeas \in [SearchedIdeas -> SearchRow]
  /\ index \in [SearchedIdeas -> IndexEntry \cup {NoIndexEntry}]
  /\ torn \subseteq SearchedIdeas
  /\ searchReq \in [Worker -> SearchRequest]

\* When no handler runs, every live idea whose handlers ran to their end is in
\* the index.  Its tags there are the ones it has in SQLite, its text is in
\* PostgreSQL, and both are with one handler at a time.
IndexFollows ==
  (\A q \in workers : searchReq[q].pc = "idle") =>
    \A i \in SearchedIdeas \ torn : IsLive(i) =>
      /\ index[i] # NoIndexEntry
      /\ Sqlite \/ Serial => index[i].tags = searchIdeas[i].tags
      /\ ~Sqlite \/ Serial => index[i].text = searchIdeas[i].text
=============================================================================
