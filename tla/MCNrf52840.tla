----------------------------- MODULE MCNrf52840 -----------------------------
(***************************************************************************)
(* Small instances of Nrf52840.                                            *)
(***************************************************************************)
EXTENDS Nrf52840

ShortFrame == <<"pre", "sfd", "len2", "b1", "b2">>
\* A data frame that asks for an acknowledgement.
DataFrame == <<"pre", "sfd", "len3", "a1", "a2", "a3">>
MCAckRequests == {<<"a1", "a2", "a3">>}
MCFrames == MCAckRequests \union {<<"b1", "b2">>}

Channel(eep, tep) == [eep |-> eep, tep |-> tep, on |-> FALSE]

\* Contiki-NG's driver triggers every task itself.
Contiki == [kind |-> "radio", rx |-> {}, tx |-> {}, ppi |-> <<>>, clears |-> "CRCOK",
            frames |-> {ShortFrame}, rearm |-> FALSE, compare |-> {}, values |-> <<>>]
\* nrf_802154 leaves it to shortcuts and PPI: CCA before a transmission, and a
\* turnaround over DISABLED, EGU and a TIMER.
Zephyr == [Contiki EXCEPT !.frames = {DataFrame}, !.rx = {"RXREADY_START", "END_DISABLE"},
              !.tx = {"RXREADY_CCASTART", "CCAIDLE_TXEN", "TXREADY_START", "PHYEND_DISABLE"},
              !.ppi = <<Channel("DISABLED", "EGU"), Channel("EGU", "TXEN"),
                        Channel("COMPARE", "TXEN")>>]
\* RIOT consumes a frame by END and leaves CRCOK alone.
Riot == [Contiki EXCEPT !.rx = {"READY_START", "PHYEND_DISABLE"},
                        !.tx = {"READY_START", "END_DISABLE"},
                        !.clears = "END"]

Timer == [Contiki EXCEPT !.kind = "timer", !.compare = {1, 2}, !.values = <<{0, 2}, {1, 3}>>]
Rtc == [Contiki EXCEPT !.kind = "rtc"]
Rng == [Contiki EXCEPT !.kind = "rng"]
Uart(rearm) == [Contiki EXCEPT !.kind = "uart", !.rearm = rearm]

MCSetups == {Contiki, Zephyr, Riot, Timer, Rtc, Rng, Uart(TRUE), Uart(FALSE)}

=============================================================================
