----------------------------- MODULE MCCommands -----------------------------
(***************************************************************************)
(* TLC instances of Commands.                                              *)
(***************************************************************************)
EXTENDS Commands, TLC

MCPorts  == {4}
MCOctets == {0, 1, 200}
MCWords  == {258, 16001}
MCClocks == {<<59, 30, 12, 2, 31, 1, 99, 0>>, <<1, 2, 3, 4, 5, 6, 2025, 0>>}

At(code) == <<code, 0>>

(* Every byte of a value differs from the others, where it can.            *)
MCFactory ==
     At(MCB.READ_FIRMWARE) :> <<5, 6, 7>>
  @@ At(MCB.READ_STATUS) :> <<1, 0, 0, 0, 1, 1, 0, 1, 0, 1, 0, 0, 0, 1, 1, 0>>
  @@ <<MCB.READ_INPUT_DIGITAL, 4>> :> <<1>>
  @@ <<MCB.READ_ANALOG_INPUT, 4>> :> <<770>>
  @@ <<MCB.READ_SENSOR_DISTANCE, 0>> :> <<1028>>
  @@ <<MCB.READ_SENSOR_DISTANCE, 1>> :> <<65535>>
  @@ At(MCB.READ_STATUS_SPECIAL) :> <<0, 1>>
  @@ Switch :> <<1>>
  @@ At(MCB.READ_DATA_HORA) :> <<10, 20, 13, 7, 28, 2, 24, 0>>
  @@ At(MCB.READ_MAC_PC) :> Block(6, 10)
  @@ At(MCB.READ_INFO1) :> Block(15, 20)
  @@ At(MCB.READ_INFO2) :> Block(15, 40)
  @@ At(MCB.READ_INFO3) :> Block(15, 0)
  @@ At(MCB.CMD_KEY_PRESSED) :> <<65, 1>>
  @@ At(MCB.CMD_KEY_RELEASED) :> <<66>>
  @@ At(MCB.CMD_VERSION) :> <<8, 9>>
  @@ <<MCB.WRITE_SPECIAL, 4>> :> <<0>>
  @@ <<MCB.WRITE_CONFIG, 4>> :> <<0>>
  @@ <<MCB.WRITE_DIGITAL_OUT, 4>> :> <<0>>
  @@ <<MCB.WRITE_ANALOG_OUT, 4>> :> <<0>>
  @@ <<MCB.WRITE_DIGITAL_TIMER, 4>> :> <<0>>
  @@ <<MCB.CMD_LED_TECLA, 4>> :> <<0>>
  @@ At(MCB.WRITE_NETWORK_CONFIG) :> Block(16, 60)
  @@ At(MCB.WRITE_MAC) :> Block(6, 80)
  @@ At(MCB.WRITE_BAUD_UART1) :> <<8, 3>>
  @@ At(MCB.WRITE_BAUD_UART2) :> <<7, 2>>
  @@ At(MCB.CMD_BUZZER) :> <<0>>
  @@ At(MCB.CMD_BEEP_TECLA) :> <<0>>
  @@ Power :> <<1>>

(* The switch is turned off, the clock goes on, a key is pressed, a level  *)
(* rises.                                                                  *)
MCOthers ==
     Switch :> {<<0>>}
  @@ At(MCB.READ_DATA_HORA) :> {<<11, 20, 13, 7, 28, 2, 24, 0>>}
  @@ At(MCB.CMD_KEY_PRESSED) :> {<<13, 0>>}
  @@ <<MCB.READ_ANALOG_INPUT, 4>> :> {<<1023>>}
=============================================================================
