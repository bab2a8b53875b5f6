------------------------------ MODULE MCTunnel ------------------------------
(* Small instances of Tunnel for TLC. *)
EXTENDS TunnelStream

CONSTANTS n, x1, x2, y1, u1, v1

One == 1 .. 1
Two == 1 .. 2
Three == 1 .. 3
OneName == {n}
OneTag == {0}
TwoTags == {0, 1}
ThreeTags == {0, 1, 2}
AllBodies == {x1, x2, y1, u1, v1}

World(faults, leaving, ends, browsers, proxy) ==
  [faults |-> faults, leaving |-> leaving, ends |-> ends,
   browsers |-> browsers, proxy |-> proxy]

\* Two browsers when the streams could be mixed, one that sends twice when
\* something comes between its packets.  Three when two descriptors run out:
\* nobody leaves and the client does not accept the third; two leave without
\* a word and take the server's descriptors for good; or one does, and the
\* descriptor of the other comes back between the packets of the third.
FewWorlds == {
  World({}, {}, {}, <<<<x1, x2>>, <<y1>>>>, <<<<u1>>, <<v1>>, <<>>>>),
  World({"refuse"}, {}, {}, <<<<x1, x2>>, <<y1>>>>, <<<<u1>>, <<v1>>, <<>>>>),
  World({"hangup", "malloc"}, {}, {"eof"}, <<<<x1, x2>>>>, <<<<u1>>, <<v1>>, <<>>>>),
  World({"stall"}, {}, {}, <<<<x1, x2>>>>, <<<<u1, v1>>, <<>>, <<>>>>),
  World({}, {1, 2}, {"reset"}, <<<<x1>>, <<y1>>>>, <<<<u1>>, <<>>, <<>>>>),
  World({"hangup"}, {1}, {"eof"}, <<<<x1, x2>>>>, <<<<u1>>, <<v1>>, <<>>>>),
  World({}, {}, {}, <<<<x1>>, <<y1>>, <<u1>>>>, <<<<>>, <<v1>>, <<>>>>),
  World({}, {1, 2, 3}, {"reset"}, <<<<>>, <<>>, <<x1>>>>, <<<<>>, <<>>, <<>>>>),
  World({}, {1, 2}, {"reset"}, <<<<y1>>, <<>>, <<x1, x2>>>>, <<<<>>, <<>>, <<>>>>) }

\* A browser that leaves.
Leaving == { World({}, {1}, {"reset"}, <<<<x1>>>>, <<<<>>>>) }
=============================================================================
