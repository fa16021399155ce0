--------------------------------- MODULE Syntax --------------------------------
(***************************************************************************)
(* The keywords that the editor colours: the automaton of Aho and Corasick *)
(* (mini-vim/aho_corasick.c) and the scan of the text (syntax.c). A node   *)
(* of the trie is named by the characters that lead to it, so the root is  *)
(* <<>>.                                                                   *)
(***************************************************************************)
EXTENDS Integers, SequencesExt

Root == <<>>

lexemes == <<<<"i", "n", "t">>, <<"v", "o", "i", "d">>, <<"c", "h", "a", "r">>,
             <<"s", "h", "o", "r", "t">>>>

stmts == <<<<"i", "f">>, <<"e", "l", "s", "e">>, <<"s", "i", "z", "e", "o", "f">>,
           <<"c", "a", "s", "e">>, <<"w", "h", "i", "l", "e">>, <<"f", "o", "r">>>>

TrieNodes(patterns) ==
  UNION {{SubSeq(p, 1, n) : n \in 0 .. Len(p)} : p \in ToSet(patterns)}

\* The last node of a pattern is marked when it is made: not if it was there before.
Leaves(patterns) ==
  {p \in ToSet(patterns) :
     \E i \in DOMAIN patterns :
        patterns[i] = p /\ \A j \in 1 .. i - 1 : ~IsPrefix(p, patterns[j])}

\* The link of a node continues, with its last character, the first of the links of
\* its father that can. The walk has no more turns than the node has characters.
Continued(nodes, link, n) ==
  LET Back == [m \in nodes |-> IF m = Root \/ Append(m, Last(n)) \in nodes THEN m ELSE link[m]]
      chemin[k \in Nat] == IF k = 0 THEN link[Front(n)] ELSE Back[chemin[k - 1]]
      m == Append(chemin[Len(n)], Last(n))
  IN IF Len(n) > 1 /\ m \in nodes THEN m ELSE Root

\* The links of the nodes of one length come after those of the shorter ones.
FailLinks(patterns) ==
  LET nodes == TrieNodes(patterns)
      Level == [d \in Nat |-> [link \in [nodes -> nodes] |->
                  [n \in nodes |-> IF Len(n) = d THEN Continued(nodes, link, n) ELSE link[n]]]]
      links[d \in Nat] == IF d = 0 THEN [n \in nodes |-> Root] ELSE Level[d][links[d - 1]]
  IN links[Max({Len(n) : n \in nodes})]

build_trie(patterns) ==
  [words |-> ToSet(patterns), nodes |-> TrieNodes(patterns),
   leaves |-> Leaves(patterns), fail |-> FailLinks(patterns)]

\* Faulty: no link is followed.
add_char_stays(trie, it, c) ==
  LET next == Append(it, c)
  IN CASE next \in trie.leaves -> [it |-> Root, found |-> Len(next)]
       [] next \in trie.nodes \ trie.leaves -> [it |-> next, found |-> 0]
       [] next \notin trie.nodes -> [it |-> it, found |-> 0]

\* One link is followed, then c is dropped if it still does not fit; a word that ends
\* there is not reported. The answer is the length of the word that was found.
add_char(trie, it, c) ==
  LET next == Append(it, c)
      back == Append(trie.fail[it], c)
  IN CASE next \in trie.leaves -> [it |-> Root, found |-> Len(next)]
       [] next \in trie.nodes \ trie.leaves -> [it |-> next, found |-> 0]
       [] next \notin trie.nodes ->
            [it |-> IF back \in trie.nodes THEN back ELSE trie.fail[it], found |-> 0]

\* syntax_from_start: the places after each character of the text, newlines included.
Scan(trie, text) ==
  LET Step == [i \in DOMAIN text |-> [it \in trie.nodes |-> add_char(trie, it, text[i])]]
      after[i \in 0 .. Len(text)] ==
        IF i = 0 THEN [it |-> Root, found |-> 0] ELSE Step[i][after[i - 1].it]
  IN [i \in DOMAIN text |-> after[i]]

\* The tables of the types and of the statements.
Tries == {build_trie(lexemes), build_trie(stmts)}

\* The stretches that the scan colours: the last of their cells, and how many they are.
Coloured(scan) == {<<i, scan[i].found>> : i \in {j \in DOMAIN scan : scan[j].found > 0}}

\* The characters that one link is not enough for.
Dropped(trie, scan, text) ==
  {i \in DOMAIN text :
     LET it == IF i = 1 THEN Root ELSE scan[i - 1].it
     IN /\ Append(it, text[i]) \notin trie.nodes
        /\ trie.fail[it] # Root
        /\ Append(trie.fail[it], text[i]) \notin trie.nodes}
=============================================================================
