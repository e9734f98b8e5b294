SPECIFICATION I2cSpec
CONSTANTS
  sensor = sensor
  baro = baro
  motor = motor
  Transactions = {sensor, baro, motor}
  NULL = NULL
  Careless = {motor}
  Jobs <- MCJobs
  I2C_TRANSACTION_QUEUE_LEN = 3
INVARIANTS NoLostWakeup
PROPERTIES WholeTransfer FifoService EveryoneAnswered
