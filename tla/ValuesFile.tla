----------------------------- MODULE ValuesFile -----------------------------
(***************************************************************************)
(* The lines of a helm values file and how a bump rewrites them:           *)
(* scripts/ci/lib/bump_values.py with set_field of set_yaml_field.py and   *)
(* classify of image_block_state.py.  They work on lines, by indentation,  *)
(* while Helm reads YAML: a line is its indentation, its key, its value    *)
(* (Null for a key that opens a mapping) and whether a comment follows.    *)
(* A line of the key Remark is a comment.  Blank lines, which every loop   *)
(* here passes over, and lists, which the charts have none of around their *)
(* images, are left out.                                                   *)
(***************************************************************************)
EXTENDS Integers, Sequences, SequencesExt

CONSTANTS
    Files,   \* values files, as sequences of lines
    Images,  \* what a build may announce: [repository, tag, digest]
    Modes,   \* --digest-mode
    Texts    \* what may be a key or a value: the strings

Null == ""
Remark == "#"
Fields == {"repository", "tag", "digest"}

Lines == [indent : Nat, key : Texts, value : Texts, remark : BOOLEAN]

ASSUME ValuesAssumption ==
    /\ Files \subseteq Seq(Lines)
    /\ Images \subseteq [repository : Texts, tag : Texts, digest : Texts]
    /\ {Null, Remark, "image", "pullPolicy", "IfNotPresent", "managed"} \cup Fields \subseteq Texts

Line(indent, key, value) == [indent |-> indent, key |-> key, value |-> value, remark |-> FALSE]

VARIABLES
    file,    \* the values file
    found,   \* history: the file the first bump has found
    bumped,  \* history: the last image written, and in which mode
    refused  \* history: a bump has refused the file

fileVars == <<file, found, bumped, refused>>

NoBump == [mode |-> "none"]

-----------------------------------------------------------------------------
(* set_yaml_field.py                                                       *)

\* The first line of the key, at any depth.
ParentIndex(lines) ==
    LET images == {i \in DOMAIN lines : lines[i].key = "image"}
    IN  IF images = {} THEN 0 ELSE Min(images)

\* Whether the line i is in the block of p: only deeper lines lie between.
InBlock(lines, p, i) == \A j \in p + 1 .. i : lines[j].key = Remark \/ lines[j].indent > lines[p].indent

\* Fault: the search goes on after the end of the block.
FindKeyAnywhere(lines, p, child) ==
    LET after == {i \in p + 1 .. Len(lines) : lines[i].key = child /\ lines[i].indent > 0}
    IN  IF after = {} THEN 0 ELSE Min(after)

\* find_key: the first line of the key in the block of p, at any depth, or 0.
find_key(lines, p, child) ==
    LET inside == {i \in p + 1 .. Len(lines) : lines[i].key = child /\ lines[i].indent > 0 /\ InBlock(lines, p, i)}
    IN  IF inside = {} THEN 0 ELSE Min(inside)

\* `image: x` is made a mapping with x as its repository.  So is `image: # x`:
\* the expression takes the comment for the value.
Promoted(lines, p) ==
    LET line == lines[p]
    IN  IF line.value = Null /\ ~line.remark THEN lines
        ELSE SubSeq(lines, 1, p - 1)
             \o <<[line EXCEPT !.value = Null, !.remark = (@ /\ line.value # Null)],
                  [line EXCEPT !.indent = @ + 2, !.key = "repository", !.remark = (@ /\ line.value = Null)]>>
             \o SubSeq(lines, p + 1, Len(lines))

\* Fault: the child is indented by one column.
ChildByOne(parent, child, value) == Line(parent.indent + 1, child, value)

Child(parent, child, value) == Line(parent.indent + 2, child, value)

set_field(text, child, value) ==
    LET p == ParentIndex(text)
        lines == Promoted(text, p)
        c == find_key(lines, p, child)
    IN  CASE p = 0 -> text \o <<Line(0, "image", Null), Line(2, child, value)>>
          [] p # 0 /\ c # 0 -> IF lines[c].value = value THEN text ELSE [lines EXCEPT ![c].value = value]
          [] OTHER -> InsertAt(lines, p + 1, Child(lines[p], child, value))

-----------------------------------------------------------------------------
(* image_block_state.py                                                    *)

classify(lines) ==
    LET top == {i \in DOMAIN lines : lines[i].key = "image" /\ lines[i].indent = 0}
        opening == {i \in top : lines[i].value = Null}
        after == {i \in DOMAIN lines : i > Min(opening) /\ lines[i].key # Remark}
    IN  CASE opening = {} /\ top # {} -> "malformed"
          [] opening = {} /\ top = {} ->
                IF \E i \in DOMAIN lines : lines[i].key \in {"repository", "tag"} THEN "malformed" ELSE "needs-block"
          [] OTHER -> IF after = {} \/ lines[Min(after)].indent = 0 THEN "malformed" ELSE "ok"

-----------------------------------------------------------------------------
(* bump_values.py                                                          *)

re_has_digest(lines) ==
    \E i \in DOMAIN lines : lines[i].key = "digest" /\ (lines[i].indent = 2 \/ i = 1)

Banner == Line(0, Remark, "managed")

NewBlock(image) == <<Line(0, "image", Null), Line(2, "repository", image.repository),
                     Line(2, "tag", image.tag), Line(2, "pullPolicy", "IfNotPresent")>>

\* Fault: a block is appended whether there is one or not.
WithBlock(lines, image) == lines \o NewBlock(image)

WithImage(lines, image) ==
    IF classify(lines) = "needs-block"
    THEN lines \o (IF Contains(lines, Banner) THEN <<>> ELSE <<Banner>>) \o NewBlock(image)
    ELSE set_field(set_field(lines, "repository", image.repository), "tag", image.tag)

\* Fault: a digest that is there already is not renewed.
DigestIfAsked(lines, image, mode) == image.digest # "-" /\ mode = "on"

WantsDigest(lines, image, mode) ==
    image.digest # "-" /\ (mode = "on" \/ (mode = "if-present" /\ re_has_digest(lines)))

Rewritten(lines, image, mode) ==
    LET text == WithImage(lines, image)
    IN  IF WantsDigest(text, image, mode) THEN set_field(text, "digest", image.digest) ELSE text

FileInit ==
    /\ file \in Files
    /\ found = file
    /\ bumped = NoBump
    /\ refused = FALSE

\* main, for one service of the build.
Bump(image, mode) ==
    IF classify(file) = "malformed"
    THEN refused' = TRUE /\ UNCHANGED <<file, found, bumped>>
    ELSE /\ file' = Rewritten(file, image, mode)
         /\ bumped' = [image |-> image, mode |-> mode]
         /\ UNCHANGED <<found, refused>>

FileNext == \E image \in Images, mode \in Modes : Bump(image, mode)

FileSpec == FileInit /\ [][FileNext]_fileVars

-----------------------------------------------------------------------------
(* What Helm reads.                                                        *)

\* Two lines of one mapping, i first.
Siblings(lines, i, j) ==
    /\ lines[i].key # Remark /\ lines[i].indent = lines[j].indent
    /\ \A k \in i + 1 .. j - 1 : lines[k].key = Remark \/ lines[k].indent >= lines[i].indent

\* The line j opens the mapping of the line i.
Opens(lines, i, j) ==
    /\ lines[i].key # Remark /\ lines[i].value = Null /\ lines[i].indent < lines[j].indent
    /\ \A k \in i + 1 .. j - 1 : lines[k].key = Remark

\* Lines are nested by indentation, and no key occurs twice in one mapping.
WellFormed(lines) ==
    \A j \in DOMAIN lines : lines[j].key # Remark =>
        /\ \/ lines[j].indent = 0 /\ \A i \in 1 .. j - 1 : lines[i].key = Remark
           \/ \E i \in 1 .. j - 1 : Siblings(lines, i, j) \/ Opens(lines, i, j)
        /\ \A i \in 1 .. j - 1 : Siblings(lines, i, j) => lines[i].key # lines[j].key

\* The lines that say image.<field>.
Says(lines, field) ==
    {i \in DOMAIN lines : /\ lines[i].key = field
                          /\ \E p \in 1 .. i - 1 : /\ lines[p].key = "image" /\ lines[p].indent = 0
                                                   /\ InBlock(lines, p, i)}

\* The shape set_yaml_field.py:7 says the pipeline needs, which the charts have:
\* the first key `image` is at the top with no comment after it, its block has
\* one level, indented by two, and no other block has a digest.
TwoLevel(lines) ==
    LET p == ParentIndex(lines)
    IN  /\ WellFormed(lines)
        /\ p # 0 => lines[p].indent = 0 /\ ~lines[p].remark
        /\ \A i \in p + 1 .. Len(lines) : p # 0 /\ InBlock(lines, p, i) /\ lines[i].key # Remark => lines[i].indent = 2
        /\ \A i \in DOMAIN lines : lines[i].key = "digest" => i \in Says(lines, "digest")

-----------------------------------------------------------------------------
(* Properties.                                                             *)

\* A bump nests what it adds by two columns, at the top or below a line it has found.
FileTypeOK ==
    /\ file \in Seq(Lines)
    /\ \A i \in DOMAIN file : \E indent \in {0} \cup {found[j].indent : j \in DOMAIN found} :
          \/ file[i].indent = indent
          \/ file[i].indent = indent + 2 /\ file[i].key # "image"
    /\ found \in Seq(Lines)
    /\ bumped \in {NoBump} \cup [image : Images, mode : Modes]
    /\ refused \in BOOLEAN

\* Helm reads the image of the last bump, once, after any sequence of bumps of a
\* file of two levels; a digest is left beside a new tag only by a build that
\* announces none or does not write digests (bump_values.py:112).
HelmReadsTheImage ==
    TwoLevel(found) /\ bumped # NoBump =>
        LET Reads(field, value) == \E i \in DOMAIN file : Says(file, field) = {i} /\ file[i].value = value
            image == bumped.image
        IN  /\ TwoLevel(file)
            /\ Reads("repository", image.repository)
            /\ Reads("tag", image.tag)
            /\ image.digest # "-" /\ (bumped.mode = "on" \/ (bumped.mode = "if-present" /\ Says(file, "digest") # {}))
                 => Reads("digest", image.digest)

IsField(lines, i) == \E field \in Fields : i \in Says(lines, field)

\* The lines but those of the three fields; rest[n] are those of the first n.
Rest(lines) ==
    LET rest[n \in 0 .. Len(lines)] ==
            IF n = 0 THEN <<>> ELSE IF IsField(lines, n) THEN rest[n - 1] ELSE Append(rest[n - 1], lines[n])
    IN  rest[Len(lines)]

Header(lines) ==
    (IF Contains(lines, Banner) THEN <<>> ELSE <<Banner>>)
    \o <<Line(0, "image", Null), Line(2, "pullPolicy", "IfNotPresent")>>

Remarked(lines, field) == {lines[i].remark : i \in Says(lines, field)}

\* Everything but the values of the three fields stays as it was, in its order,
\* comments included (set_yaml_field.py:8).
RestIsUntouched ==
    TwoLevel(found) =>
        /\ Rest(file) = Rest(found) \o (IF classify(found) = "needs-block" /\ bumped # NoBump
                                       THEN Header(found) ELSE <<>>)
        /\ \A field \in Fields : Remarked(found, field) \subseteq Remarked(file, field)

\* A rerun of the same build changes nothing: gitops-bump.sh then has nothing to
\* commit.
RerunsChangeNothing ==
    TwoLevel(found) /\ bumped # NoBump => Rewritten(file, bumped.image, bumped.mode) = file
=============================================================================
