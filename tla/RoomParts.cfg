SPECIFICATION PartsSpec
CHECK_DEADLOCK FALSE
CONSTANTS
  Gap = 8
  Debounce = 2
  Blip = 8
  Linger = 8
  Nudge = 12
  Rungs <- MCRungs
  TICK_S = 1
  DT_CHOICES <- MCDts
  Turns <- MCTurns
  TickMs = 250
  ECHO_START_WINDOW_MS = 400
  ECHO_OUTLIVE_MS = 2400
  BARGE_SUSTAIN_MS = 750
  PLAYBACK_GATE_HANGOVER_MS = 2000
  SUSPEND_GAP_MS = 2000
  MIN_PAIRED_SAMPLES = 4
  VadTail = 4
  EchoTail = 4
  Attempts <- MCAttempts
  secret_mint_cap = 1
  None = 0
  DIAG_CAPACITY = 3
  Beats = {b1, b2}
  MaxEntries = 3
  MaxNow = 3
  Widgets = {w1, w2}
INVARIANTS
  
  HolesAreKnown
PROPERTIES
  EntryIsSound
  
