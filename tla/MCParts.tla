------------------------------ MODULE MCParts ------------------------------
(***************************************************************************)
(* The three parts of the program that share no state with one another or  *)
(* with Shelf, CopyItem and StoreBook: commands over several items with    *)
(* the paths they are given, the exclude file, and the metadata files.     *)
(* One of them moves, from any of its initial states, and the other two    *)
(* stay in the one named here.                                             *)
(***************************************************************************)
EXTENDS BatchPaths, ExcludeFile, MetadataFiles

batchVars == vars

BatchAtRest   == Init /\ canon = {} /\ repo = [x \in Items |-> "regular"]
ExcludeAtRest == ExcludeInit /\ exclude = <<>>
FilesAtRest   == FilesInit /\ volume.require /\ volume.dirSync

PartsInit ==
  \/ Init /\ ExcludeAtRest /\ FilesAtRest
  \/ BatchAtRest /\ ExcludeInit /\ FilesAtRest
  \/ BatchAtRest /\ ExcludeAtRest /\ FilesInit

PartsNext ==
  \/ ExcludeAtRest /\ FilesAtRest /\ Next /\ UNCHANGED <<excludeVars, filesVars>>
  \/ BatchAtRest /\ FilesAtRest /\ ExcludeNext /\ UNCHANGED <<batchVars, filesVars>>
  \/ BatchAtRest /\ ExcludeAtRest /\ FilesNext /\ UNCHANGED <<batchVars, excludeVars>>

PartsSpec == PartsInit /\ [][PartsNext]_<<batchVars, excludeVars, filesVars>>

Directory(items) == [items |-> items, lenient |-> TRUE]
Path(item)       == [items |-> {item}, lenient |-> FALSE]

(* Command lines that name no item twice, and one that names item 2 twice: *)
(* item add dir dir/file.                                                  *)
MCItems    == 1..3
MCNumbers  == 1..3
MCLines    == {<<Directory({1, 2}), Path(3)>>, <<Path(1), Directory({2, 3})>>,
               <<Directory({1, 2}), Path(2)>>}

(* Trees of a working tree a/a that may also be reached through a link b,  *)
(* or be left through links inside it.                                     *)
Plain(kind) == [kind |-> kind, to |-> <<>>]
Link(to)    == [kind |-> "link", to |-> to]

MCRoot == <<"a", "a">>

MCNodes == {<<>>, <<"a">>, <<"b">>, <<"a", "a">>, <<"a", "b">>, <<"b", "a">>,
            <<"a", "a", "a">>, <<"a", "a", "b">>, <<"a", "a", "a", "a">>, <<"a", "a", "a", "b">>}

(* Every parent is a directory, and no link leads to a link.               *)
MCConsistent(fs) ==
  \A p \in DOMAIN fs \ {<<>>} :
    /\ fs[p].kind # "missing" => fs[SubSeq(p, 1, Len(p) - 1)].kind = "dir"
    /\ fs[p].kind = "link" => fs[fs[p].to].kind # "link"

MCTree(b, ba, ab, aaa, aab, aaaa, aaab) ==
  [p \in MCNodes |->
     CASE p = <<"b">> -> b [] p = <<"b", "a">> -> ba [] p = <<"a", "b">> -> ab
       [] p = <<"a", "a", "a">> -> aaa [] p = <<"a", "a", "b">> -> aab
       [] p = <<"a", "a", "a", "a">> -> aaaa [] p = <<"a", "a", "a", "b">> -> aaab
       [] OTHER -> Plain("dir")]

MCTrees ==
  LET missing == Plain("missing") file == Plain("file") dir == Plain("dir")
  IN  {fs \in {MCTree(b, ba, ab, aaa, aab, aaaa, aaab) :
                b \in {missing, dir, Link(<<"a">>), Link(MCRoot)},
                ba \in {missing, Link(MCRoot)}, ab \in {dir, Link(MCRoot)},
                aaa \in {missing, file, dir, Link(<<"a", "b">>), Link(<<"a", "a", "b">>)},
                aab \in {missing, dir}, aaaa \in {missing, file, dir}, aaab \in {missing, dir}}
         : MCConsistent(fs)}

MCTyped == UNION {[1..n -> {"a", "b", ".."}] : n \in 1..4} \cup [1..5 -> {"a", "b"}]
=============================================================================
