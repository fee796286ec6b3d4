-------------------------------- MODULE TagDesk --------------------------------
(***************************************************************************)
(* Tags and the ideas they are put on: TagService with TagRepository and   *)
(* IdeaTagRepository, whose create and delete commit each row on its own.  *)
(*                                                                         *)
(* Tag names are unique, an idea has a tag once, and a tag that an idea    *)
(* has can't be deleted: a handler that would break one of these is        *)
(* refused by the database and ends where it is.                           *)
(***************************************************************************)
EXTENDS Integers, Workers

CONSTANTS
  TaggedIdeas,
  TagNames,   \* normalized names
  BadNames,   \* those of them that are too short or too long
  MaxTagId    \* bound: tags ever created

ASSUME TagDeskAssumption ==
  TagNames # {} /\ BadNames \subseteq TagNames /\ MaxTagId \in Nat /\ "none" \notin TaggedIdeas

VARIABLES
  tags,      \* the id of each name's tag, 0 if it has none
  lastTagId,
  links,     \* the ids of the tags on each idea
  asked,     \* history: the names last asked for an idea, {} before any was
  broken,    \* history: ideas whose last change of tags was not carried out
  tagReq     \* the handler that each worker runs

tagVars == <<workers, tags, lastTagId, links, asked, broken, tagReq>>

-----------------------------------------------------------------------------
TagId == 1..MaxTagId
Named(t) == {n \in TagNames : tags[n] = t}
InUse(t) == \E i \in TaggedIdeas : t \in links[i]

\* "todo": names still to put on the idea; "gone": rows read, still to delete.
TagRequest == [pc : {"idle", "clear", "names", "create", "link", "delete"},
               idea : TaggedIdeas \cup {"none"}, todo : SUBSET TagNames, name : TagNames,
               tag : 0..MaxTagId, gone : SUBSET TagId]
TagIdle == [pc |-> "idle", idea |-> "none", todo |-> {}, name |-> CHOOSE n \in TagNames : TRUE,
            tag |-> 0, gone |-> {}]
TagAt(q, step) == q \in workers /\ tagReq[q].pc = step
TagGoto(q, r) == tagReq' = [tagReq EXCEPT ![q] = r]
TagEnds(q) == TagGoto(q, TagIdle)

TagDeskInit ==
  /\ WorkersInit
  /\ tags = [n \in TagNames |-> 0]
  /\ lastTagId = 0
  /\ links = [i \in TaggedIdeas |-> {}]
  /\ asked = [i \in TaggedIdeas |-> {}]
  /\ broken = {}
  /\ tagReq = [q \in Worker |-> TagIdle]

-----------------------------------------------------------------------------
(* Tagging an idea *)

\* sync_idea_tags reads the tags on the idea, to remove them all.
\* Mutant of ToRemove: the tags on the idea stay.
ToRemoveNone(i) == {}
ToRemove(i) == links[i]
SyncTags(q, i, names) ==
  /\ TagAt(q, "idle")
  /\ TagGoto(q, [TagIdle EXCEPT !.pc = "clear", !.idea = i, !.todo = names,
                                !.gone = ToRemove(i)])
  /\ asked' = [asked EXCEPT ![i] = names] /\ broken' = broken \ {i}
  /\ UNCHANGED <<tags, lastTagId, links>>

UnlinkOne(q, t) ==
  /\ TagAt(q, "clear") /\ t \in tagReq[q].gone
  /\ TagGoto(q, [tagReq[q] EXCEPT !.gone = @ \ {t}])
  /\ links' = [links EXCEPT ![tagReq[q].idea] = @ \ {t}]
  /\ UNCHANGED <<tags, lastTagId, asked, broken>>

AllUnlinked(q) ==
  /\ TagAt(q, "clear") /\ tagReq[q].gone = {}
  /\ TagGoto(q, [tagReq[q] EXCEPT !.pc = "names"])
  /\ UNCHANGED <<tags, lastTagId, links, asked, broken>>

\* create_or_get_tag looks the name up; a bad name raises.
TakeName(q, n) ==
  /\ TagAt(q, "names") /\ n \in tagReq[q].todo \ BadNames
  /\ TagGoto(q, [tagReq[q] EXCEPT !.todo = @ \ {n}, !.name = n, !.tag = tags[n],
                                  !.pc = IF tags[n] = 0 THEN "create" ELSE "link"])
  /\ UNCHANGED <<tags, lastTagId, links, asked, broken>>

\* create_tag by itself ends here.
TagCreated(q) ==
  /\ TagAt(q, "create") /\ tags[tagReq[q].name] = 0 /\ lastTagId < MaxTagId
  /\ lastTagId' = lastTagId + 1
  /\ tags' = [tags EXCEPT ![tagReq[q].name] = lastTagId + 1]
  /\ TagGoto(q, IF tagReq[q].idea = "none" THEN TagIdle
                ELSE [tagReq[q] EXCEPT !.pc = "link", !.tag = lastTagId + 1])
  /\ UNCHANGED <<links, asked, broken>>

LinkTag(q) ==
  /\ TagAt(q, "link") /\ Named(tagReq[q].tag) # {}
  /\ TagGoto(q, [tagReq[q] EXCEPT !.pc = "names"])
  /\ links' = [links EXCEPT ![tagReq[q].idea] = @ \cup {tagReq[q].tag}]
  /\ UNCHANGED <<tags, lastTagId, asked, broken>>

TagsSynced(q) ==
  /\ TagAt(q, "names") /\ tagReq[q].todo = {} /\ TagEnds(q)
  /\ UNCHANGED <<tags, lastTagId, links, asked, broken>>

-----------------------------------------------------------------------------
(* Managing tags *)

CreateTag(q, n) ==
  /\ TagAt(q, "idle") /\ n \notin BadNames /\ tags[n] = 0
  /\ TagGoto(q, [TagIdle EXCEPT !.pc = "create", !.name = n])
  /\ UNCHANGED <<tags, lastTagId, links, asked, broken>>

\* delete_tag, of a tag that no idea has; delete_unused_tags, of all of those.
DeleteTags(q, T) ==
  /\ TagAt(q, "idle") /\ T # {}
  /\ \A t \in T : Named(t) # {} /\ ~InUse(t)
  /\ TagGoto(q, [TagIdle EXCEPT !.pc = "delete", !.gone = T])
  /\ UNCHANGED <<tags, lastTagId, links, asked, broken>>
DeleteTag(q, t) == DeleteTags(q, {t})
DeleteUnusedTags(q) == DeleteTags(q, {t \in TagId : Named(t) # {} /\ ~InUse(t)})

DeleteOne(q, t) ==
  /\ TagAt(q, "delete") /\ t \in tagReq[q].gone /\ ~InUse(t)
  /\ tags' = [n \in TagNames |-> IF tags[n] = t THEN 0 ELSE tags[n]]
  /\ TagGoto(q, IF tagReq[q].gone = {t} THEN TagIdle ELSE [tagReq[q] EXCEPT !.gone = @ \ {t}])
  /\ UNCHANGED <<lastTagId, links, asked, broken>>

\* The database refuses, a name is bad, or the process dies: what is committed stays.
TagFails(q) ==
  /\ q \in workers /\ tagReq[q].pc # "idle" /\ TagEnds(q)
  /\ broken' = broken \cup ({tagReq[q].idea} \cap TaggedIdeas)
  /\ UNCHANGED <<tags, lastTagId, links, asked>>

TagStep(q) ==
  \/ \E i \in TaggedIdeas, names \in SUBSET TagNames : SyncTags(q, i, names)
  \/ \E t \in TagId : UnlinkOne(q, t) \/ DeleteTag(q, t) \/ DeleteOne(q, t)
  \/ \E n \in TagNames : TakeName(q, n) \/ CreateTag(q, n)
  \/ AllUnlinked(q) \/ TagCreated(q) \/ LinkTag(q) \/ TagsSynced(q)
  \/ DeleteUnusedTags(q) \/ TagFails(q)
TagDeskNext == UNCHANGED workers /\ \E q \in workers : TagStep(q)
TagDeskSpec == TagDeskInit /\ [][TagDeskNext]_tagVars

TagDeskTypeOK ==
  /\ tags \in [TagNames -> 0..MaxTagId] /\ lastTagId \in 0..MaxTagId
  /\ links \in [TaggedIdeas -> SUBSET TagId]
  /\ asked \in [TaggedIdeas -> SUBSET TagNames] /\ broken \subseteq TaggedIdeas
  /\ tagReq \in [Worker -> TagRequest]

\* With one handler at a time, the tags on an idea are the ones last asked for
\* it, each once and by its own name, unless that request failed on the way:
\* no deletion of tags takes one of them, and none is left from before.
TagsAsAsked ==
  Serial => \A i \in TaggedIdeas \ broken :
    (\A q \in workers : tagReq[q].idea # i)
      => links[i] = {tags[n] : n \in asked[i]} /\ 0 \notin links[i]
=============================================================================
