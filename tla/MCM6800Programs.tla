-------------------------- MODULE MCM6800Programs --------------------------
(* Operands at the boundaries of sign, carry and half carry. *)
EXTENDS M6800Programs

Edges == {0, 1, 15, 127, 128, 255}
WordEdges == {0, 1, 127, 128, 255, 256, 4660, 32767, 32768, 65535}
Decimals == {16 * h + l : h \in {0, 4, 5, 9}, l \in {0, 1, 5, 8, 9}}

Task(names, ps, qs, ks) == [name : names, p : ps, q : qs, k : ks]

MCTasks ==
  Task({"compare"}, Edges, Edges, (34 .. 39) \union (44 .. 47))
    \union Task({"decimal"}, Decimals, Decimals, {0, 1})
    \union Task({"add", "subtract"}, WordEdges, WordEdges, {0})
    \union Task({"shift"}, WordEdges, {0}, 1 .. 3)
    \union Task({"negate"}, WordEdges, {0}, {0})
    \union Task({"multiply", "copy"}, Edges, Edges, {0})
    \union Task({"call"}, {1}, {254}, 1 .. 4)
    \union Task({"swi"}, Edges, {3}, {0})
    \union [name : {"single"}, p : {0, 127, 128, 255}, q : {0, 1, 128, 255},
            k : {0, 1}, op : Byte, b : {1, 128}]
    \union Task({"outch"}, {0, 78, 129, 254}, {7}, 1 .. 6)

MCMapped == 0 .. 84 \union {65530, 65531}
MCWritable == 0 .. 63

(* Some LEDs are lit before the ROM writes to them. *)
MCLamps == {[position \in Positions |-> {position, 7}]}

=============================================================================
