------------------------------ MODULE RenodeDev ------------------------------
(***************************************************************************)
(* The register window csim shows to Renode (src/native/renode_dev.c): a   *)
(* queue of received frames, the console of one node in both directions,   *)
(* a transmit buffer and one level interrupt.  Queues are their lengths:   *)
(* what a frame or a byte says is the guest's business.  A frame is        *)
(* written in MaxFrame words at most.  Registers that only show what is    *)
(* known (STATUS, RX_LEN, SIM_TIME, the sticky overflow bits...) or only   *)
(* pass a value to the medium (CHANNEL, TXPOWER) are one read and one      *)
(* write without effect.                                                   *)
(***************************************************************************)
EXTENDS Integers

CONSTANTS
  RENODE_DEV_RX_QUEUE, RENODE_DEV_UART_RING, RENODE_DEV_UART_IN,
  RENODE_DEV_MAX_FRAME,
  Consoles             \* slots a guest writes to UART_NODE

\* renode_dev_reset: which console is bridged is not state.
renode_dev_reset(node) ==
  [rx_en |-> FALSE, uart_en |-> FALSE, rx |-> 0, uo |-> 0, ui |-> 0,
   tx_len |-> 0, tx_wr |-> 0, uart_node |-> node]

Smaller(a, b) == IF a <= b THEN a ELSE b

\* A full queue drops what is new.
renode_dev_rx_push(d) == [d EXCEPT !.rx = Smaller(@ + 1, RENODE_DEV_RX_QUEUE)]
renode_dev_uart_push(d) == [d EXCEPT !.uo = Smaller(@ + 1, RENODE_DEV_UART_RING)]

\* The node took the first n of the waiting bytes.
renode_dev_uart_retry(d, n) == [d EXCEPT !.ui = @ - n]

renode_dev_irq_level(d) == (d.rx_en /\ d.rx > 0) \/ (d.uart_en /\ d.uo > 0)

\* Accesses of the guest.
CTRL == [reg : {"CTRL"}, rx_en : BOOLEAN, uart_en : BOOLEAN,
         rx_flush : BOOLEAN, tx_reset : BOOLEAN]
Reads == [reg : {"STATUS", "UART_DATA"}]
Writes == [reg : {"CHANNEL", "TX_DATA", "TX_CTRL", "RX_POP", "UART_DATA"}]
          \cup CTRL
          \cup [reg : {"TX_LEN"}, len : 0 .. RENODE_DEV_MAX_FRAME + 1]
          \cup [reg : {"UART_NODE"}, node : Consoles]

renode_dev_read(d, a) ==
  IF a.reg = "UART_DATA" /\ d.uo > 0 THEN [d EXCEPT !.uo = @ - 1] ELSE d

\* TX_CTRL puts a frame on the air when it is complete.
tx_fires(d, a) == a.reg = "TX_CTRL" /\ d.tx_len > 0 /\ d.tx_wr >= d.tx_len

renode_dev_write(d, a) ==
  CASE a.reg = "CTRL" ->
         [d EXCEPT !.rx_en = a.rx_en, !.uart_en = a.uart_en,
                   !.rx = IF a.rx_flush THEN 0 ELSE @,
                   !.tx_wr = IF a.tx_reset THEN 0 ELSE @,
                   !.tx_len = IF a.tx_reset THEN 0 ELSE @]
    [] a.reg = "TX_LEN" /\ a.len <= RENODE_DEV_MAX_FRAME ->
         [d EXCEPT !.tx_len = a.len, !.tx_wr = 0]
    [] a.reg = "TX_DATA" -> [d EXCEPT !.tx_wr = Smaller(@ + 1, d.tx_len)]
    [] tx_fires(d, a) -> [d EXCEPT !.tx_wr = 0]
    [] a.reg = "RX_POP" /\ d.rx > 0 -> [d EXCEPT !.rx = @ - 1]
    [] a.reg = "UART_NODE" -> [d EXCEPT !.uart_node = a.node]
    [] a.reg = "UART_DATA" -> [d EXCEPT !.ui = Smaller(@ + 1, RENODE_DEV_UART_IN)]
    [] OTHER -> d
=============================================================================
