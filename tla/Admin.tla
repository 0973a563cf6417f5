-------------------------------- MODULE Admin -------------------------------
(***************************************************************************)
(* The admin server's requests (admin/admin_server.cc) and the common tags *)
(* they may change.  One request is handled at a time: two handlers at     *)
(* once would race on the std::map of the configuration, which nothing     *)
(* guards.  Deleting and listing meters is in Registry; here such requests *)
(* only are routed.                                                        *)
(***************************************************************************)
EXTENDS Integers

CONSTANTS
  allowed_tags,   \* the tags that may be changed
  AdminTags,      \* the tags that requests name
  AdminValues,    \* values of tags; "" deletes a tag, "number" is no string
  StartTags       \* the common tags of the configuration at the start

ASSUME AdminAssumption ==
  /\ allowed_tags \subseteq AdminTags
  /\ DOMAIN StartTags \subseteq AdminTags
  /\ StartTags = [t \in DOMAIN StartTags |-> StartTags[t]]   \* a std::map

VARIABLES
  handling,     \* the request being handled, or NoRequest
  todo,         \* the tags of its body that are still to be applied
  status,       \* of the last response
  config_tags,  \* config_->common_tags
  before,       \* config_tags when the request came
  common_tags,  \* the publisher's common_tags_
  published     \* the common tags of the last batch

adminVars == <<handling, todo, status, config_tags, before, common_tags, published>>

NoRequest == [uri |-> "", method |-> "", localhost |-> FALSE, body |-> <<>>]
NoTagsSet == [t \in {} |-> ""]
Unpublished == [t \in {"none"} |-> "none"]

\* Bodies: text that is no JSON, JSON that is no object, and objects.
Objects == UNION {[T -> AdminValues] : T \in SUBSET AdminTags}
Bodies == {<<"malformed">>, <<"array">>} \cup {<<"object", o>> : o \in Objects}

Uris == {"/", "/config", "/config/common_tags", "/metrics", "/metrics/A", "/metrics/g/id", "/other"}

AdminInit ==
  /\ handling = NoRequest /\ todo = {} /\ status = 0
  /\ config_tags = StartTags /\ before = StartTags
  /\ common_tags = StartTags    \* publisher.h:56-59, copied by the constructor
  /\ published = Unpublished

\* A request arrives; the body matters to the one POST there is.
Request(uri, method, localhost, body) ==
  /\ handling = NoRequest
  /\ handling' = [uri |-> uri, method |-> method, localhost |-> localhost, body |-> body]
  /\ before' = config_tags
  /\ UNCHANGED <<todo, status, config_tags, common_tags, published>>

Respond(code) == status' = code /\ handling' = NoRequest /\ todo' = {}

\* The routes that change no configuration, and what they may answer: a DELETE of
\* one meter finds it or not.
Route(r) ==
  CASE r.method = "GET" /\ r.uri \in {"/", "/config", "/config/common_tags", "/metrics"} -> {200}
    [] r.method = "DELETE" /\ r.uri = "/metrics/A" -> IF r.localhost THEN {200} ELSE {400}
    [] r.method = "DELETE" /\ r.uri = "/metrics/g/id" -> IF r.localhost THEN {200, 404} ELSE {400}
    [] OTHER -> {404}

PostsTags(r) == r.method = "POST" /\ r.uri = "/config/common_tags"

handleRequest ==
  /\ handling # NoRequest /\ ~PostsTags(handling)
  /\ \E code \in Route(handling) : Respond(code)
  /\ UNCHANGED <<config_tags, before, common_tags, published>>

\* Whether POST_config_common_tags accepts the body.
Accepted(r) ==
  /\ r.localhost /\ r.body[1] = "object"
  /\ \A t \in DOMAIN r.body[2] : t \in allowed_tags /\ r.body[2][t] # "number"

\* The first loop refuses the request before the second one changes anything.
PostRefused ==
  /\ handling # NoRequest /\ PostsTags(handling) /\ todo = {} /\ ~Accepted(handling)
  /\ Respond(400)
  /\ UNCHANGED <<config_tags, before, common_tags, published>>

PostAccepted ==
  /\ handling # NoRequest /\ PostsTags(handling) /\ todo = {} /\ Accepted(handling)
  /\ IF DOMAIN handling.body[2] = {} THEN Respond(200)
     ELSE todo' = DOMAIN handling.body[2] /\ UNCHANGED <<handling, status>>
  /\ UNCHANGED <<config_tags, before, common_tags, published>>

\* second.empty()
IsEmpty(v) == v = ""

\* EraseCommonTag and UpdateCommonTag
Erase(tags, t) == [x \in DOMAIN tags \ {t} |-> tags[x]]
Put(tags, t, v) == [x \in DOMAIN tags \cup {t} |-> IF x = t THEN v ELSE tags[x]]

PostApply_erases_all(t) ==
  LET v == handling.body[2][t]
  IN /\ t \in todo
     /\ config_tags' = IF IsEmpty(v) THEN NoTagsSet ELSE Put(config_tags, t, v)
     /\ IF todo = {t} THEN Respond(200) ELSE todo' = todo \ {t} /\ UNCHANGED <<handling, status>>
     /\ UNCHANGED <<before, common_tags, published>>

\* One turn of the second loop: EraseCommonTag or UpdateCommonTag.
PostApply(t) ==
  LET v == handling.body[2][t]
  IN /\ t \in todo
     /\ config_tags' = IF IsEmpty(v) THEN Erase(config_tags, t) ELSE Put(config_tags, t, v)
     /\ IF todo = {t} THEN Respond(200) ELSE todo' = todo \ {t} /\ UNCHANGED <<handling, status>>
     /\ UNCHANGED <<before, common_tags, published>>

\* The publisher sends a batch with the common tags it has.
PublishBatch ==
  /\ published' = common_tags
  /\ UNCHANGED <<handling, todo, status, config_tags, before, common_tags>>

AdminNext ==
  \/ \E uri \in Uris, method \in {"GET", "POST", "DELETE"}, local \in BOOLEAN :
       \E body \in IF method = "POST" THEN Bodies ELSE {<<>>} : Request(uri, method, local, body)
  \/ handleRequest \/ PostRefused \/ PostAccepted
  \/ (\E t \in todo : PostApply(t))
  \/ PublishBatch

AdminSpec == AdminInit /\ [][AdminNext]_adminVars

-----------------------------------------------------------------------------
\* Types
AdminTypeOK ==
  /\ status \in {0, 200, 400, 404} /\ todo \subseteq AdminTags
  /\ DOMAIN config_tags \subseteq AdminTags /\ DOMAIN before \subseteq AdminTags

\* A request changes the configuration as a whole or not at all: what is answered
\* with an error, and any request but an accepted POST, changes nothing; once the
\* POST is answered, its tags are set or gone and all the others, the protected
\* ones among them, are as they were when it came.
ChangesWholeOrNothing ==
  [][handling # NoRequest /\ handling' = NoRequest =>
       config_tags' =
         IF PostsTags(handling) /\ status' = 200
         THEN LET o == handling.body[2]
                  set == {t \in DOMAIN o : ~IsEmpty(o[t])}
              IN [t \in (DOMAIN before \ DOMAIN o) \cup set |-> IF t \in set THEN o[t] ELSE before[t]]
         ELSE before]_adminVars

\* After "common tags updated" the batches that are sent carry the new tags.
CommonTagsTakeEffect == [][PublishBatch /\ handling = NoRequest => common_tags = config_tags]_adminVars
=============================================================================
