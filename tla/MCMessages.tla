----------------------------- MODULE MCMessages -----------------------------
(***************************************************************************)
(* Every short payload, and every one of up to eight bytes behind one      *)
(* address, for one function code of each PDU class; bytes of three bits,  *)
(* of which the payloads use those with none, one or all of them set.      *)
(* Calls of every kind, with up to four coils and four registers.          *)
(***************************************************************************)
EXTENDS ClientApi

MCByte == {0, 1, 2, 4, 7}

MCPayloads(size) == UNION {[1 .. n -> MCByte] : n \in 0 .. size}

MCLong == {<<2, 1>> \o rest : rest \in UNION {[1 .. n -> MCByte] : n \in 3 .. 6}}

MCAdus(codes, payloads) == {<<1, fc>> \o p : fc \in codes, p \in payloads}

MCRequests ==
    {<<>>, <<1>>} \union MCAdus({3, 23}, MCPayloads(5)) \union MCAdus({15, 16}, MCPayloads(4) \union MCLong)

MCAnswers == {<<>>, <<1>>} \union MCAdus({1, 3, 15, 23, 131}, MCPayloads(5))

MCCall(ops, quantities, values, fmts) ==
    [op : ops, unit : {1}, address : {0, 10}, quantity : quantities, values : values,
     fmt : fmts, bool : {FALSE}]

MCBits == UNION {[1 .. n -> {0, 1}] : n \in 0 .. 4}

\* Registers, and an integer that outgrows one.
MCWords == {0, 1, 10, 63, 74}

\* The integers that set and clear a coil, two that outgrow a word, and one that a device
\* refuses.
MCCoilWords == {0, 1, 56, 64, 120}

\* Up to three registers, and a fourth for which the byte count has no room.
MCRegisters == UNION {[1 .. n -> MCWords] : n \in 0 .. 3} \union {<<1, 10, 63, 74>>}

\* With an address or a quantity that is no word.
MCCalls ==
    {[c EXCEPT !.address = 64] : c \in MCCall({"write_coils"}, {0}, {<<1>>}, {0})}
    \union MCCall({"read_coils"}, {64}, {<<>>}, {0})
    \union MCCall(ReadsBits, 0 .. 5, {<<>>}, {0})
    \union MCCall(ReadsWords, 0 .. 3, {<<>>}, {0, 2, 4})
    \union {[c EXCEPT !.bool = TRUE] : c \in MCCall({"write_coil"}, {0}, [{1} -> {0, 1}], {0})}
    \union MCCall({"write_coil"}, {0}, [{1} -> MCCoilWords], {0})
    \union MCCall({"write_coils"}, {0}, MCBits, {0})
    \union MCCall({"write_register"}, {0}, [{1} -> MCWords], {0})
    \union MCCall({"write_registers"}, {0}, MCRegisters, {0})
    \union {[c EXCEPT !.fmt = Len(c.values)] : c \in
              MCCall({"write_register", "write_registers"}, {0},
                     UNION {[1 .. n -> {0, 1, 7}] : n \in 1 .. 4}, {0})}

MCGiven == {0, 1, 10, 63}

MCStrays ==
    MCAdus({1, 2, 3, 4, 5, 6, 15, 16, 23}, {<<0, 1, 0, 2>>, <<2, 1, 2>>, <<1>>, <<>>})

=============================================================================
