---- MODULE MCCoSimulation ----
(* Small instances of CoSimulation for TLC. *)
EXTENDS CoSimulation

CONSTANTS p1, p2, sky

MCReads == [reg : {"STATUS", "UART_DATA"}]
MCWrites ==
  [reg : {"TX_DATA", "TX_CTRL", "RX_POP", "UART_DATA"}]
  \cup [reg : {"UART_NODE"}, node : Consoles]
  \cup {[reg |-> "TX_LEN", len |-> 1],
        [reg |-> "CTRL", rx_en |-> TRUE, uart_en |-> TRUE, rx_flush |-> FALSE, tx_reset |-> FALSE],
        [reg |-> "CTRL", rx_en |-> TRUE, uart_en |-> FALSE, rx_flush |-> TRUE, tx_reset |-> TRUE]}
====
