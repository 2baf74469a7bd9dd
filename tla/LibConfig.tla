------------------------------ MODULE LibConfig ------------------------------
(***************************************************************************)
(* The configuration parser of src/lib/libconfig/libconfig.c, as          *)
(* operators: libconfig_parse builds a tree of items from the lines of a  *)
(* file, libconfig_find looks a colon-separated name up in it.            *)
(*                                                                         *)
(* A line is given by what strip() and the is_* tests make of it: blank   *)
(* (only spaces, tabs and line ends), a comment ('#' first), a subtree    *)
(* opening ('{' first), a closing ('}' first), a "name=value" pair or a   *)
(* bare name.  Names and values are atoms without ':'; the 128-byte       *)
(* truncation of snprintf and the malloc/realloc/fopen failures are left  *)
(* out.                                                                    *)
(***************************************************************************)
EXTENDS Naturals, Sequences, FiniteSetsExt

NOVALUE == "NULL"       \* a NULL char * from libconfig_find

(* The lines of a configuration file after strip(). *)
Comment     == [kind |-> "comment"]
Blank       == [kind |-> "blank"]
Open        == [kind |-> "open"]
Close       == [kind |-> "close"]
Pair(n, v)  == [kind |-> "pair", name |-> n, value |-> v]
Name(n)     == [kind |-> "name", name |-> n, value |-> ""]

(* config_item_t: a name, a value and the children in insertion order. *)
Item(name, value) == [name |-> name, value |-> value, childs |-> <<>>]

(* config_insert_item with a parent: a new item appended to its childs. *)
ConfigInsertItem(name, value, parent) ==
    [parent EXCEPT !.childs = Append(@, Item(name, value))]

(* read_line: the index of the next line that is neither blank nor a      *)
(* comment, or Len(lines) + 1 at end of file.                              *)
RECURSIVE ReadLine(_, _)
ReadLine(lines, pos) ==
    IF pos <= Len(lines) /\ lines[pos].kind \in {"blank", "comment"}
    THEN ReadLine(lines, pos + 1)
    ELSE pos

(* config_item_tree(parent) from line pos, with last set (hasLast) once   *)
(* this call has inserted an item.  The result is the return code, the    *)
(* parent with what was inserted below it, and the next line to read.     *)
(* A pair or a bare name is inserted into parent; '{' descends into the    *)
(* item inserted last (an error if there is none yet); '}' and end of     *)
(* file end this call with success.                                        *)
RECURSIVE ConfigItemTree(_, _, _, _)
ConfigItemTree(parent, lines, pos, hasLast) ==
    LET at == ReadLine(lines, pos)
        l  == lines[at]
    IN IF at > Len(lines) THEN [rc |-> 0, item |-> parent, pos |-> at]
       ELSE CASE l.kind \in {"pair", "name"} ->
                   ConfigItemTree(ConfigInsertItem(l.name, l.value, parent),
                                  lines, at + 1, TRUE)
              [] l.kind = "open" /\ ~hasLast ->
                   [rc |-> 1, item |-> parent, pos |-> at + 1]
              [] l.kind = "open" ->
                   LET n   == Len(parent.childs)
                       sub == ConfigItemTree(parent.childs[n], lines, at + 1, FALSE)
                   IN IF sub.rc # 0 THEN [rc |-> 1, item |-> parent, pos |-> sub.pos]
                      ELSE ConfigItemTree([parent EXCEPT !.childs[n] = sub.item],
                                          lines, sub.pos, hasLast)
              [] l.kind = "close" -> [rc |-> 0, item |-> parent, pos |-> at + 1]

(* libconfig_parse: the item "root" and the tree below it, or NULL (ok   *)
(* FALSE) when config_item_tree fails.                                     *)
LibconfigParse(lines) ==
    LET r == ConfigItemTree(Item("root", ""), lines, 1, FALSE)
    IN IF r.rc # 0 THEN [ok |-> FALSE] ELSE [ok |-> TRUE, root |-> r.item]

(* strtok(namebuf, ":"): the tokens of a name, empty ones skipped. *)
Tokens(path) == SelectSeq(path, LAMBDA t : t # "")

(* Fault variant of FindFrom: a token no child has leaves item unchanged. *)
RECURSIVE FindFromNoMiss(_, _)
FindFromNoMiss(item, toks) ==
    IF toks = <<>> THEN item.value
    ELSE LET hits == {i \in DOMAIN item.childs : item.childs[i].name = Head(toks)}
         IN IF hits = {} THEN FindFromNoMiss(item, Tail(toks))
            ELSE FindFromNoMiss(item.childs[Min(hits)], Tail(toks))

(* The while loop of libconfig_find: per further token, the for loop      *)
(* descends into the first child of that name, and gives NULL when it     *)
(* reaches the last child without a match; an item with no children runs  *)
(* no iteration, so it stays the item for the next token.                 *)
RECURSIVE FindFrom(_, _)
FindFrom(item, toks) ==
    IF toks = <<>> THEN item.value
    ELSE LET hits == {i \in DOMAIN item.childs : item.childs[i].name = Head(toks)}
         IN IF item.childs = <<>> THEN FindFrom(item, Tail(toks))
            ELSE IF hits = {} THEN NOVALUE
            ELSE FindFrom(item.childs[Min(hits)], Tail(toks))

(* libconfig_find(item, path): the first token must be item's own name;   *)
(* the value of the item the path leads to, or NULL.                      *)
LibconfigFind(item, path) ==
    LET toks == Tokens(path)
    IN IF item.name # Head(toks) THEN NOVALUE ELSE FindFrom(item, Tail(toks))

=============================================================================
