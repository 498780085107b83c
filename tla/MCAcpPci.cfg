SPECIFICATION FairSpec
CONSTANT ACP6x_DEVS = 3
INVARIANTS
  TypeOK
  ReleasedWhenUnbound
  PoweredOffWhenUnbound
  CaptureArmed
  HandlerChildLive
PROPERTY Settles
